---- MODULE Spec2Model ----
(***************************************************************************)
(* A model of pyxform's SurveyElement (src/pyxform/survey_element.py):     *)
(* the element tree, lineage and xpath derivation, attribute resolution    *)
(* over the question type dictionary, and the annotated-label synthesis.   *)
(*                                                                         *)
(* Python strings are sequences of one-character strings, so that split,   *)
(* join, replace and regular-expression search are computed and not        *)
(* assumed.  Fixed markup that no code path inspects (the span wrapper,    *)
(* the style texts, the derived annotation labels) is kept as one token.   *)
(***************************************************************************)
EXTENDS Integers, Sequences, FiniteSets, TLC

VARIABLES
    created,    \* the elements constructed so far (object identities)
    parent,     \* parent[e]: the element's "parent" entry, None when unset
    children,   \* children[e]: the element's "children" list
    attrs,      \* attrs[e]: the other entries of the element's dict
    survey,     \* the root's is_annotated_form() flag and annotated_fields
    qtd,        \* QUESTION_TYPE_DICT: type name -> field -> default
    any_repeat_cache,   \* lru_cache of any_repeat: (self, parent_xpath, value)
    op          \* the last call made: its name, arguments and outcome

vars == <<created, parent, children, attrs, survey, qtd, any_repeat_cache, op>>

----------------------------------------------------------------------------
(* Bounds of the model.                                                    *)

MaxElems == 3
MaxAttach == 2
MaxFields == 2

----------------------------------------------------------------------------
(* Python values.                                                          *)

\* None, as the value of the "parent" entry (FIELDS["parent"] is lambda: None).
None == 0

Elems == 1..MaxElems

\* The empty str, FIELDS[...] = str.
EmptyStr == <<>>

\* A Python value with its type: str, dict, bool or NoneType.
PyStr(s) == [t |-> "str", v |-> s]
PyDict(d) == [t |-> "dict", v |-> d]
PyBool(b) == [t |-> "bool", v |-> IF b THEN <<TRUE>> ELSE <<>>]
PyNone == [t |-> "none", v |-> <<>>]
PyList(l) == [t |-> "list", v |-> l]

\* bool(value): None, False, "" and {} are falsy.
Truthy(x) == x.t # "none" /\ Len(x.v) > 0

\* The record of a call: what it was made on and with, what it returned or
\* raised, and (pre) what the objects it may touch held when it was made.
Returned(name, self, arg, result) ==
    [name |-> name, self |-> self, arg |-> arg, result |-> result,
     error |-> "none", pre |-> <<>>]
\* A call a caller is about to make.
Pending(name, arg) ==
    [name |-> name, self |-> 0, arg |-> arg, result |-> <<>>,
     error |-> "pending", pre |-> <<>>]
Raised(name, self, arg, error) ==
    [name |-> name, self |-> self, arg |-> arg, result |-> <<>>,
     error |-> error, pre |-> <<>>]

\* A dict is an insertion-ordered sequence of <<key, value>> pairs.  The keys
\* of the dicts nested in an element (bind, media, ...) are strs, the values
\* Python values with their type.
DictKeys(d) == {d[i][1] : i \in 1..Len(d)}
DictHas(d, k) == \E i \in 1..Len(d) : d[i][1] = k
DictIndex(d, k) == CHOOSE i \in 1..Len(d) : d[i][1] = k
\* dict.get(k, dflt)
DictGet(d, k, dflt) == IF DictHas(d, k) THEN d[DictIndex(d, k)][2] ELSE dflt
\* d[k] = v: an existing key keeps its position, a new key goes last.
DictSet(d, k, v) ==
    IF DictHas(d, k)
    THEN [i \in 1..Len(d) |-> IF d[i][1] = k THEN <<k, v>> ELSE d[i]]
    ELSE Append(d, <<k, v>>)

RECURSIVE DictUpdate(_, _)
\* dict.update(other) for a mapping other.
DictUpdate(d, other) ==
    IF other = <<>> THEN d
    ELSE DictUpdate(DictSet(d, Head(other)[1], Head(other)[2]), Tail(other))

----------------------------------------------------------------------------
(* str operations.                                                         *)

RECURSIVE Flatten(_)
Flatten(ss) == IF ss = <<>> THEN <<>> ELSE Head(ss) \o Flatten(Tail(ss))

RECURSIVE StrJoin(_, _)
\* sep.join(parts)
StrJoin(sep, parts) ==
    IF parts = <<>> THEN <<>>
    ELSE IF Len(parts) = 1 THEN parts[1]
    ELSE parts[1] \o sep \o StrJoin(sep, Tail(parts))

RECURSIVE StrSplitAcc(_, _, _, _)
StrSplitAcc(s, c, cur, acc) ==
    IF s = <<>> THEN Append(acc, cur)
    ELSE IF Head(s) = c THEN StrSplitAcc(Tail(s), c, <<>>, Append(acc, cur))
    ELSE StrSplitAcc(Tail(s), c, Append(cur, Head(s)), acc)

\* s.split(c) for a one-character separator c.
StrSplit(s, c) == StrSplitAcc(s, c, <<>>, <<>>)

\* s.startswith(p) at position i (1-based).
StartsAt(s, i, p) ==
    /\ i + Len(p) - 1 <= Len(s)
    /\ \A k \in 1..Len(p) : s[i + k - 1] = p[k]

RECURSIVE StrReplaceFrom(_, _, _, _)
StrReplaceFrom(s, i, old, new) ==
    IF i > Len(s) THEN <<>>
    ELSE IF StartsAt(s, i, old)
         THEN new \o StrReplaceFrom(s, i + Len(old), old, new)
         ELSE <<s[i]>> \o StrReplaceFrom(s, i + 1, old, new)

\* s.replace(old, new) for a non-empty old: leftmost, non-overlapping.
StrReplace(s, old, new) == StrReplaceFrom(s, 1, old, new)

----------------------------------------------------------------------------
(* Attribute resolution: __getattr__ over the question type dictionary.    *)

\* The keys of SurveyElement.FIELDS.
FIELDS == {"name", "sms_field", "sms_option", "label", "hint",
           "guidance_hint", "default", "type", "appearance", "parameters",
           "intent", "jr:count", "bind", "instance", "control", "media",
           "parent", "children", "itemset", "choice_filter", "query",
           "autoplay", "flat", "action", "list_name", "trigger",
           "annotated_fields"}

\* The entries of an element's dict that the model holds with their type,
\* because callers store a str, a dict or None there.
TypedEntries == {"label", "hint", "guidance_hint", "appearance", "parameters",
                 "action"}
DictEntries == {"bind", "instance", "media", "control"}
StrEntries == {"name", "type", "itemset", "list_name", "default", "trigger",
               "choice_filter"}

\* self.get(key), for the entries the model holds.
RawGet(a, key) ==
    IF key \in TypedEntries THEN a[key]
    ELSE IF key \in DictEntries THEN PyDict(a[key])
    ELSE IF key \in StrEntries THEN PyStr(a[key])
    ELSE IF key = "flat" THEN PyBool(a.flat)
    ELSE PyStr(EmptyStr)

\* What a call of _overlay or __getattr__ leaves: the value returned or the
\* exception raised, and the dict object `under` as it is after the call.
Gives(result, under) == [result |-> result, error |-> "none", under |-> under]
Throws(error, under) == [result |-> PyNone, error |-> error, under |-> under]

\* _overlay updating `under` itself instead of a copy of it.
_overlay_no_copy(over, under) ==
    IF under.t = "dict"
    THEN IF over.t = "dict"
         THEN Gives(PyDict(DictUpdate(under.v, over.v)),
                    PyDict(DictUpdate(under.v, over.v)))
         ELSE IF over.t = "str" /\ over.v = <<>> THEN Gives(under, under)
         ELSE IF over.t = "str" THEN Throws("ValueError", under)
         ELSE Throws("TypeError", under)
    ELSE Gives(IF Truthy(over) THEN over ELSE under, under)

\* _overlay(over, under).  dict.update takes a mapping, or an iterable of
\* key/value pairs: the empty str is an empty iterable, a non-empty str
\* yields one-character items (ValueError), None and bool are not iterable
\* (TypeError).
_overlay(over, under) ==
    IF under.t = "dict"
    THEN IF over.t = "dict"
         THEN Gives(PyDict(DictUpdate(under.v, over.v)), under)
         ELSE IF over.t = "str" /\ over.v = <<>> THEN Gives(under, under)
         ELSE IF over.t = "str" THEN Throws("ValueError", under)
         ELSE Throws("TypeError", under)
    ELSE Gives(IF Truthy(over) THEN over ELSE under, under)

\* SurveyElement._default: QUESTION_TYPE_DICT.get(self.get("type"), {})
_default(q, a) == DictGet(q, a.type, <<>>)

\* SurveyElement.__getattr__(key) of an element with entries a.
__getattr__(q, a, key) ==
    IF key \in FIELDS
    THEN LET question_type_dict == _default(q, a)
             under == DictGet(question_type_dict, key, PyNone)
             over == RawGet(a, key)
         IN IF ~Truthy(under) THEN Gives(over, under)
            ELSE _overlay(over, under)
    ELSE Throws("AttributeError", PyNone)

\* The table after a call that left the default of (type, key) as `under`.
WriteBack(q, a, key, under) ==
    IF DictHas(q, a.type) /\ DictHas(_default(q, a), key)
    THEN DictSet(q, a.type, DictSet(_default(q, a), key, under))
    ELSE q

\* element.<key>
GetAttr(e, key) ==
    LET r == __getattr__(qtd, attrs[e], key)
        pre == [qtd |-> qtd, attrs |-> attrs[e]]
    IN /\ op' = [(IF r.error = "none"
                   THEN Returned("__getattr__", e, <<key>>, r.result)
                   ELSE Raised("__getattr__", e, <<key>>, r.error))
                 EXCEPT !.pre = pre]
       /\ qtd' = WriteBack(qtd, attrs[e], key, r.under)
       /\ UNCHANGED <<created, parent, children, attrs, survey, any_repeat_cache>>

----------------------------------------------------------------------------
(* The tree: construction and attachment.                                  *)

\* The name a caller gives the i-th element it builds.
NameOf(i) == <<<<"d">>, <<"g", "_", "1">>, <<"q">>, <<"r">>, <<"s">>>>[i]

\* The entries FIELDS declares besides parent and children, each at the
\* default __init__ gives it.
DefaultAttrs ==
    [name |-> EmptyStr, type |-> EmptyStr, label |-> PyStr(EmptyStr),
     flat |-> FALSE, bind |-> <<>>, instance |-> <<>>, media |-> <<>>,
     control |-> <<>>, itemset |-> EmptyStr, list_name |-> EmptyStr,
     default |-> EmptyStr, trigger |-> EmptyStr, choice_filter |-> EmptyStr,
     hint |-> PyStr(EmptyStr), guidance_hint |-> PyStr(EmptyStr),
     appearance |-> PyStr(EmptyStr), action |-> PyStr(EmptyStr),
     parameters |-> PyDict(<<>>)]

\* The next object identity.
NewElem == Cardinality(created) + 1

\* The number of attachments made so far, over all children lists.
Attached == LET RECURSIVE Sum(_)
                Sum(S) == IF S = {} THEN 0
                          ELSE LET e == CHOOSE x \in S : TRUE
                               IN Len(children[e]) + Sum(S \ {e})
            IN Sum(Elems)

RECURSIVE LinkAll(_, _, _)
\* for child in kids: child.parent = p
LinkAll(par, p, kids) ==
    IF kids = <<>> THEN par
    ELSE LinkAll([par EXCEPT ![Head(kids)] = p], p, Tail(kids))

_link_children(par, p, kids) == LinkAll(par, p, kids)

\* The label __init__ leaves: a blank for an unlabeled element of
\* appearance "label"; self.control and self.label are resolved by
\* __getattr__.
InitLabel(kw) ==
    LET control == __getattr__(qtd, kw, "control").result
        label == __getattr__(qtd, kw, "label").result
    IN IF DictGet(control.v, <<"appearance">>, PyNone) = PyStr(<<"label">>)
          /\ ~Truthy(label)
       THEN PyStr(<<" ">>) ELSE kw.label

\* SurveyElement(**kw, children=kids)
Construct(kw, kids) ==
    LET n == NewElem IN
    /\ n \in Elems
    /\ Attached + Len(kids) <= MaxAttach
    /\ created' = created \cup {n}
    /\ children' = [children EXCEPT ![n] = kids]
    /\ parent' = _link_children(parent, n, kids)
    /\ attrs' = [attrs EXCEPT ![n] = [kw EXCEPT !.label = InitLabel(kw)]]
    /\ op' = Returned("__init__", n, kids, <<>>)
    /\ UNCHANGED <<survey, qtd, any_repeat_cache>>

\* add_child without the assignment of child.parent.
add_child_no_link(st, p, c) ==
    [parent |-> st.parent,
     children |-> [st.children EXCEPT ![p] = Append(@, c)]]

\* self.children.append(child); child.parent = self
add_child(st, p, c) ==
    [parent |-> [st.parent EXCEPT ![c] = p],
     children |-> [st.children EXCEPT ![p] = Append(@, c)]]

RECURSIVE AddEach(_, _, _)
AddEach(st, p, kids) ==
    IF kids = <<>> THEN st
    ELSE AddEach(add_child(st, p, Head(kids)), p, Tail(kids))

\* add_children: a list is attached child by child, anything else as one child.
add_children(st, p, arg) ==
    IF arg.list THEN AddEach(st, p, arg.v) ELSE add_child(st, p, arg.v)

Tree == [parent |-> parent, children |-> children]

AddChild(p, c) ==
    /\ Attached + 1 <= MaxAttach
    /\ LET st == add_child(Tree, p, c) IN
         /\ parent' = st.parent
         /\ children' = st.children
    /\ op' = Returned("add_child", p, <<c>>, <<>>)
    /\ UNCHANGED <<created, attrs, survey, qtd, any_repeat_cache>>

AddChildren(p, arg) ==
    /\ Attached + (IF arg.list THEN Len(arg.v) ELSE 1) <= MaxAttach
    /\ LET st == add_children(Tree, p, arg) IN
         /\ parent' = st.parent
         /\ children' = st.children
    /\ op' = Returned("add_children", p,
                     IF arg.list THEN arg.v ELSE <<arg.v>>, <<>>)
    /\ UNCHANGED <<created, attrs, survey, qtd, any_repeat_cache>>

----------------------------------------------------------------------------
(* Lineage and xpath.                                                      *)

RECURSIVE ChainUp(_, _, _)
\* The loop of get_lineage: result = [current.parent] + result while the
\* parent is set.  fuel counts the iterations left before the walk is known
\* to be in a cycle; then the loop never ends and the result is <<>>.
ChainUp(cur, result, fuel) ==
    IF parent[cur] = None THEN result
    ELSE IF fuel = 0 THEN <<>>
    ELSE ChainUp(parent[cur], <<parent[cur]>> \o result, fuel - 1)

\* The parent chain of e is finite: get_lineage(e) returns.
Terminates(e) == ChainUp(e, <<e>>, MaxElems) # <<>>

\* get_lineage with the flat filter applied to the root as well.
get_lineage_filter_root(e) ==
    LET result == ChainUp(e, <<e>>, MaxElems)
    IN SelectSeq(result, LAMBDA x : ~attrs[x].flat)

get_lineage(e) ==
    LET result == ChainUp(e, <<e>>, MaxElems)
    IN <<result[1]>> \o SelectSeq(Tail(result), LAMBDA x : ~attrs[x].flat)

get_root(e) == get_lineage(e)[1]

NamesOf(lineage) == [i \in 1..Len(lineage) |-> attrs[lineage[i]].name]

\* "/".join([""] + [n.name for n in self.get_lineage()])
get_xpath(e) == StrJoin(<<"/">>, <<EmptyStr>> \o NamesOf(get_lineage(e)))

\* get_abbreviated_xpath joining lineage[0:] instead of lineage[1:].
get_abbreviated_xpath_from_root(e) ==
    LET lineage == get_lineage(e) IN
    IF Len(lineage) >= 2
    THEN StrJoin(<<"/">>, NamesOf(lineage))
    ELSE attrs[lineage[1]].name

get_abbreviated_xpath(e) ==
    LET lineage == get_lineage(e) IN
    IF Len(lineage) >= 2
    THEN StrJoin(<<"/">>, NamesOf(Tail(lineage)))
    ELSE attrs[lineage[1]].name

GetLineage(e) ==
    /\ Terminates(e)
    /\ op' = Returned("get_lineage", e, <<>>, get_lineage(e))
    /\ UNCHANGED <<created, parent, children, attrs, survey, qtd, any_repeat_cache>>

GetXpath(e) ==
    /\ Terminates(e)
    /\ op' = Returned("get_xpath", e, <<>>, get_xpath(e))
    /\ UNCHANGED <<created, parent, children, attrs, survey, qtd, any_repeat_cache>>

GetAbbreviatedXpath(e) ==
    /\ Terminates(e)
    /\ op' = Returned("get_abbreviated_xpath", e, <<>>,
                     get_abbreviated_xpath(e))
    /\ UNCHANGED <<created, parent, children, attrs, survey, qtd, any_repeat_cache>>

----------------------------------------------------------------------------
(* Value escaping for annotated labels.                                    *)

\* The matches of re.finditer(BRACKETED_TAG_REGEX, s), left to right: "${",
\* then the shortest text without a line break up to a "}".
RECURSIVE FindRefsFrom(_, _)
FindRefsFrom(s, i) ==
    IF i > Len(s) THEN <<>>
    ELSE IF StartsAt(s, i, <<"$", "{">>)
            /\ \E j \in (i + 2)..Len(s) : s[j] = "}"
         THEN LET j == CHOOSE j \in (i + 2)..Len(s) :
                         s[j] = "}" /\ \A k \in (i + 2)..(j - 1) : s[k] # "}"
              IN IF \A k \in (i + 2)..(j - 1) : s[k] # "\n"
                 THEN <<SubSeq(s, i, j)>> \o FindRefsFrom(s, j + 1)
                 ELSE FindRefsFrom(s, i + 1)
         ELSE FindRefsFrom(s, i + 1)

FindRefs(s) == FindRefsFrom(s, 1)

\* (backslash + underscore).join(value.split(underscore))
prepend_underscore_with_backslash(value) ==
    StrJoin(<<"\\", "_">>, StrSplit(value, "_"))

RECURSIVE EscapeRefs(_, _)
\* for ref in refs_in_label: attr_value = attr_value.replace(ref, escaped ref)
EscapeRefs(attr_value, refs) ==
    IF refs = <<>> THEN attr_value
    ELSE EscapeRefs(StrReplace(attr_value, Head(refs),
                               prepend_underscore_with_backslash(Head(refs))),
                    Tail(refs))

PassThroughFields == {"readonly", "external", "contactdata", "constraint_type",
                      "required_type", "identifier"}
CompareFields == {"relevant", "required", "constraint", "default",
                  "choice_filter", "calculation", "trigger", "repeat_count",
                  "custom"}
StarFields == {"relevant", "constraint", "default", "calculation", "required",
               "custom"}

\* The steps with the star escaped for the fields of the comparison step.
EscapeNonChoices_star_for_compare(value, field_name) ==
    LET v1 == IF field_name = "label"
              THEN EscapeRefs(value, FindRefs(value))
              ELSE prepend_underscore_with_backslash(value)
        v2 == IF field_name \in CompareFields
              THEN StrReplace(StrReplace(v1, <<">">>, <<"g", "t">>),
                              <<"<">>, <<"l", "t">>)
              ELSE v1
    IN IF field_name \in CompareFields
       THEN StrReplace(v2, <<"*">>, <<"\\", "*">>)
       ELSE v2

\* The steps with the comparison signs replaced by words set off by spaces.
EscapeNonChoices_spaced(value, field_name) ==
    LET v1 == IF field_name = "label"
              THEN EscapeRefs(value, FindRefs(value))
              ELSE prepend_underscore_with_backslash(value)
        v2 == IF field_name \in CompareFields
              THEN StrReplace(StrReplace(v1, <<">">>, <<" ", "g", "t", " ">>),
                              <<"<">>, <<" ", "l", "t", " ">>)
              ELSE v1
    IN IF field_name \in StarFields
       THEN StrReplace(v2, <<"*">>, <<"\\", "*">>)
       ELSE v2

\* The underscore, comparison and star steps, for a field other than "choices".
EscapeNonChoices(value, field_name) ==
    LET v1 == IF field_name = "label"
              THEN EscapeRefs(value, FindRefs(value))
              ELSE prepend_underscore_with_backslash(value)
        v2 == IF field_name \in CompareFields
              THEN StrReplace(StrReplace(v1, <<">">>, <<"g", "t">>),
                              <<"<">>, <<"l", "t">>)
              ELSE v1
    IN IF field_name \in StarFields
       THEN StrReplace(v2, <<"*">>, <<"\\", "*">>)
       ELSE v2

SwapBraces(value) ==
    StrReplace(StrReplace(value, <<"{">>, <<"[">>), <<"}">>, <<"]">>)

\* annotated_value_processing with "choices" escaped like any other field.
annotated_value_processing_choices_escaped(value, field_name) ==
    IF field_name \in PassThroughFields THEN value
    ELSE SwapBraces(EscapeNonChoices(value, field_name))

annotated_value_processing(value, field_name) ==
    IF field_name \in PassThroughFields THEN value
    ELSE SwapBraces(IF field_name # "choices"
                    THEN EscapeNonChoices(value, field_name)
                    ELSE value)

\* The call annotated_value_processing(value, field_name) returns.
Escape ==
    /\ op.error = "pending"
    /\ op.name = "annotated_value_processing"
    /\ op' = Returned(op.name, None, op.arg,
                      annotated_value_processing(op.arg[1], op.arg[2]))
    /\ UNCHANGED <<created, parent, children, attrs, survey, qtd, any_repeat_cache>>

----------------------------------------------------------------------------
(* Annotated labels.                                                       *)

\* constants.SELECT_ONE and constants.SELECT_ALL_THAT_APPLY, and other types.
SELECT_ONE == <<"s", "e", "l", "e", "c", "t", " ", "o", "n", "e">>
SELECT_ALL_THAT_APPLY ==
    <<"s", "e", "l", "e", "c", "t", " ", "a", "l", "l", " ",
      "t", "h", "a", "t", " ", "a", "p", "p", "l", "y">>
S_select_multiple ==
    <<"s", "e", "l", "e", "c", "t", "_", "m", "u", "l", "t", "i", "p", "l", "e">>
S_from_file == <<"_", "f", "r", "o", "m", "_", "f", "i", "l", "e", " ">>
S_photo == <<"p", "h", "o", "t", "o">>
S_image == <<"i", "m", "a", "g", "e">>
S_group == <<"g", "r", "o", "u", "p">>
S_repeat == <<"r", "e", "p", "e", "a", "t">>
S_count == <<"_", "c", "o", "u", "n", "t">>

OC_CUSTOM_ANNOTATION_PREFIX == "oc:oc_annotation_"

\* constants.ANNOTATE_*: the labels and the advisory message, each one token.
ANNOTATE_ITEMGROUP == "Item Group"
ANNOTATE_RELEVANT == "Show When"
ANNOTATE_REQUIRED_TYPE == "Required Type"
ANNOTATE_CONSTRAINT_TYPE == "Constraint Type"
ANNOTATE_READONLY == "Read-Only"
ANNOTATE_REPEAT_COUNT == "Repeat Count"
ANNOTATE_EXTERNAL == "External"
ANNOTATE_CONTACTDATA == "Contact Data"
ANNOTATE_CHOICE_FILTER == "Choice Filter"
ANNOTATE_SELECT_ONE_FROM_FILE_MESSAGE == "ANNOTATE_SELECT_ONE_FROM_FILE_MESSAGE"

\* The annotated fields get_annotated_label handles without a FIELDS entry.
DispatchFields == {"itemgroup", "relevant", "required", "required_type",
                   "constraint", "constraint_type", "calculation", "readonly",
                   "image", "video", "audio", "repeat_count", "external",
                   "contactdata", "identifier", "custom"}

annotated_value_styles ==
    [f \in {"type", "name", "itemgroup", "relevant", "required",
            "required_type", "constraint", "constraint_type", "default",
            "choice_filter", "calculation", "trigger", "readonly", "image",
            "video", "audio", "repeat_count", "external", "contactdata",
            "identifier", "custom"} |->
       CASE f = "type" -> "color: black"
         [] f = "name" -> "color: orangered"
         [] f = "itemgroup" -> "color: blue"
         [] f = "relevant" -> "color: green"
         [] f = "required" -> "color: red"
         [] f = "required_type" -> "color: cornflowerblue"
         [] f = "constraint" -> "color: magenta"
         [] f = "constraint_type" -> "color: darkolivegreen"
         [] f = "default" -> "color: deepskyblue"
         [] f = "choice_filter" -> "color: dodgerblue"
         [] f = "calculation" -> "color: maroon"
         [] f = "trigger" -> "color: darkgreen"
         [] f = "readonly" -> "color: chocolate"
         [] f \in {"image", "video", "audio"} -> "color: darkviolet"
         [] f = "repeat_count" -> "color: lime"
         [] f = "external" -> "color: indigo"
         [] f \in {"contactdata", "identifier"} -> "color: tomato"
         [] f = "custom" -> "color: black"]

\* annotated_field.title(), one token.
Title(f) ==
    CASE f = "type" -> "Type"
      [] f = "name" -> "Name"
      [] f = "itemgroup" -> "Itemgroup"
      [] f = "relevant" -> "Relevant"
      [] f = "required" -> "Required"
      [] f = "required_type" -> "Required_Type"
      [] f = "constraint" -> "Constraint"
      [] f = "constraint_type" -> "Constraint_Type"
      [] f = "calculation" -> "Calculation"
      [] f = "readonly" -> "Readonly"
      [] f = "image" -> "Image"
      [] f = "video" -> "Video"
      [] f = "audio" -> "Audio"
      [] f = "repeat_count" -> "Repeat_Count"
      [] f = "external" -> "External"
      [] f = "contactdata" -> "Contactdata"
      [] f = "choice_filter" -> "Choice_Filter"
      [] f = "identifier" -> "Identifier"
      [] f = "custom" -> "Custom"
      [] f = "default" -> "Default"
      [] f = "trigger" -> "Trigger"
      [] f = "label" -> "Label"
      [] f = "hint" -> "Hint"
      [] f = "list_name" -> "List_Name"
      [] f = "itemset" -> "Itemset"
      [] f = "bind" -> "Bind"
      [] f = "flat" -> "Flat"
      [] OTHER -> f

IsStr(x, s) == x.t = "str" /\ x.v = s
\* value != ""
NotEmptyStr(x) == ~IsStr(x, EmptyStr)

\* getattr(self, key), for a key of FIELDS.
Attr(e, key) == __getattr__(qtd, attrs[e], key).result
\* hasattr(self, key): only AttributeError means no.
hasattr(e, key) == key \in FIELDS

\* self.get("bind", {}).get(key, "") and the like.
BindGet(e, key) == DictGet(attrs[e].bind, <<key>>, PyStr(EmptyStr))
MediaGet(e, key) == DictGet(attrs[e].media, <<key>>, PyStr(EmptyStr))
InstanceGet(e, key) == DictGet(attrs[e].instance, <<key>>, PyStr(EmptyStr))

PyRaise(error) == [t |-> "raise", v |-> <<error>>]

\* get_field_or_lang_dict_value: next(iter(field)) is the first key of the
\* dict; only KeyError is caught.
get_field_or_lang_dict_value(field, lang) ==
    IF field.t # "dict" THEN field
    ELSE IF lang.t # "none"
         THEN DictGet(field.v, lang.v, PyStr(EmptyStr))
         ELSE IF field.v = <<>> THEN PyRaise("StopIteration")
         ELSE PyStr(field.v[1][1])

\* The bind entries whose key starts with the custom annotation prefix.
get_custom_annotations(e) ==
    SelectSeq(attrs[e].bind,
              LAMBDA kv : Len(kv[1]) > 0 /\ kv[1][1] = OC_CUSTOM_ANNOTATION_PREFIX)

Letters == {"a", "b", "c", "d", "e", "f", "g", "h", "i", "j", "k", "l", "m",
            "n", "o", "p", "q", "r", "s", "t", "u", "v", "w", "x", "y", "z",
            "A", "B", "C", "D", "E", "F", "G", "H", "I", "J", "K", "L", "M",
            "N", "O", "P", "Q", "R", "S", "T", "U", "V", "W", "X", "Y", "Z"}
Digits == {"0", "1", "2", "3", "4", "5", "6", "7", "8", "9"}

\* The pattern matching to the very end of the label.
MatchesLabelChars_to_the_end(label) ==
    /\ Len(label) > 0
    /\ \A i \in 1..Len(label) : label[i] \in Letters \cup Digits \cup {"_", "-"}

\* re.match(r"^[A-Za-z0-9_-]+$", label): "$" also matches before a final
\* line break.
MatchesLabelChars(label) ==
    LET body == IF Len(label) > 1 /\ label[Len(label)] = "\n"
                THEN SubSeq(label, 1, Len(label) - 1) ELSE label
    IN /\ Len(body) > 0
       /\ \A i \in 1..Len(body) : body[i] \in Letters \cup Digits \cup {"_", "-"}

RECURSIVE CheckKeys(_)
CheckKeys(custom) ==
    IF custom = <<>> THEN "none"
    ELSE LET custom_annotation_label == Tail(Head(custom)[1]) IN
         IF custom_annotation_label # EmptyStr
            /\ ~MatchesLabelChars(custom_annotation_label)
         THEN "PyXFormError: only letters, digits, underscores, hyphens"
         ELSE IF custom_annotation_label # EmptyStr
                 /\ custom_annotation_label[1] \notin Letters \cup Digits
         THEN "PyXFormError: must start with a letter or digit"
         ELSE CheckKeys(Tail(custom))

\* check_custom_annotations: the error raised, or "none".
check_custom_annotations(e) == CheckKeys(get_custom_annotations(e))

RECURSIVE LStrip(_)
LStrip(s) == IF s # <<>> /\ Head(s) = " " THEN LStrip(Tail(s)) ELSE s
RECURSIVE RStrip(_)
RStrip(s) == IF s # <<>> /\ s[Len(s)] = " "
             THEN RStrip(SubSeq(s, 1, Len(s) - 1)) ELSE s
\* s.strip()
Strip(s) == RStrip(LStrip(s))

\* "".join(value.splitlines())
JoinLines(s) == SelectSeq(s, LAMBDA c : c \notin {"\n", "\r"})

\* What the dispatch on one annotated field leaves: attr_label, attr_value,
\* the custom annotations found, field_annotations as filled by the custom
\* branch, whether the element is a select from file, and the error raised.
Derived(label, value) ==
    [label |-> label, value |-> value, custom_annotations |-> <<>>,
     field_annotations |-> <<>>, from_file |-> FALSE, error |-> "none"]

\* The "type" branch.
DeriveType(e, attr_label, attr_value) ==
    IF IsStr(attr_value, SELECT_ONE) \/ IsStr(attr_value, SELECT_ALL_THAT_APPLY)
    THEN LET renamed == IF attr_value.v = SELECT_ONE
                        THEN StrReplace(attr_value.v, <<" ">>, <<"_">>)
                        ELSE S_select_multiple
         IN IF hasattr(e, "list_name") /\ NotEmptyStr(Attr(e, "list_name"))
            THEN Derived(attr_label,
                         PyStr(renamed \o <<" ">> \o Attr(e, "list_name").v))
            ELSE IF hasattr(e, "itemset") /\ NotEmptyStr(Attr(e, "itemset"))
            THEN [Derived(attr_label,
                          PyStr(renamed \o S_from_file \o Attr(e, "itemset").v))
                  EXCEPT !.from_file = TRUE]
            ELSE Derived(attr_label, PyStr(renamed))
    ELSE IF IsStr(attr_value, S_photo) THEN Derived(attr_label, PyStr(S_image))
    ELSE Derived(attr_label, attr_value)

\* next((child for child in kids if child["name"] == name), None)
FirstNamed(kids, name) ==
    IF \E i \in 1..Len(kids) : attrs[kids[i]].name = name
    THEN kids[CHOOSE i \in 1..Len(kids) :
                /\ attrs[kids[i]].name = name
                /\ \A j \in 1..(i - 1) : attrs[kids[j]].name # name]
    ELSE None

RECURSIVE FirstInGroups(_, _)
\* The search of the group-typed children of the survey.
FirstInGroups(kids, name) ==
    IF kids = <<>> THEN None
    ELSE IF attrs[Head(kids)].type = S_group
            /\ FirstNamed(children[Head(kids)], name) # None
         THEN FirstNamed(children[Head(kids)], name)
         ELSE FirstInGroups(Tail(kids), name)

\* The "repeat_count" branch of an element of type repeat.
DeriveRepeatCount(e, root, attr_label, attr_value) ==
    LET repeat_count_name == Attr(e, "name").v \o S_count
        top == FirstNamed(children[root], repeat_count_name)
        repeat_count_model ==
            IF top # None THEN top
            ELSE FirstInGroups(children[root], repeat_count_name)
    IN IF repeat_count_model # None
       THEN LET found == BindGet(repeat_count_model, "calculate")
            IN Derived(IF Truthy(found) THEN <<ANNOTATE_REPEAT_COUNT>>
                       ELSE attr_label, found)
       ELSE Derived(attr_label, attr_value)

RECURSIVE CustomPairs(_, _)
\* The loop of the "custom" branch over the custom annotations.
CustomPairs(field_annotations, custom) ==
    IF custom = <<>> THEN field_annotations
    ELSE LET attr_value == Head(custom)[2]
             suffix == Tail(Head(custom)[1])
             attr_label ==
                 IF suffix # EmptyStr /\ \E i \in 1..Len(suffix) : suffix[i] = "_"
                 THEN Strip(StrReplace(suffix, <<"_">>, <<" ">>))
                 ELSE suffix
         IN CustomPairs(DictSet(field_annotations, attr_label, attr_value),
                        Tail(custom))

\* The "custom" branch.
DeriveCustom(e, attr_label, attr_value) ==
    LET custom_annotations == get_custom_annotations(e) IN
    IF check_custom_annotations(e) # "none"
    THEN [Derived(attr_label, attr_value)
          EXCEPT !.error = check_custom_annotations(e)]
    ELSE IF custom_annotations = <<>> THEN Derived(attr_label, attr_value)
    ELSE LET pairs == CustomPairs(<<>>, custom_annotations)
         IN [Derived(pairs[Len(pairs)][1],
                     custom_annotations[Len(custom_annotations)][2])
             EXCEPT !.custom_annotations = custom_annotations,
                    !.field_annotations = pairs]

\* A value looked up in a nested dict, with the label that replaces the
\* title when the value is not "".
Relabel(value, title, label) ==
    Derived(IF NotEmptyStr(value) THEN <<label>> ELSE title, value)

\* The annotated field handling, from attr_label and attr_value as they are
\* before it.
Dispatch(e, root, f, lang, attr_label, attr_value) ==
       CASE f = "type" -> DeriveType(e, attr_label, attr_value)
         [] f = "itemgroup" ->
              Relabel(BindGet(e, "oc:itemgroup"), attr_label, ANNOTATE_ITEMGROUP)
         [] f = "relevant" ->
              Relabel(get_field_or_lang_dict_value(BindGet(e, "relevant"), lang),
                      attr_label, ANNOTATE_RELEVANT)
         [] f = "required" ->
              Derived(attr_label,
                      get_field_or_lang_dict_value(BindGet(e, "required"), lang))
         [] f = "required_type" ->
              Relabel(get_field_or_lang_dict_value(
                          BindGet(e, "oc:required-type"), lang),
                      attr_label, ANNOTATE_REQUIRED_TYPE)
         [] f = "constraint" ->
              Derived(attr_label,
                      get_field_or_lang_dict_value(BindGet(e, "constraint"), lang))
         [] f = "constraint_type" ->
              Relabel(BindGet(e, "oc:constraint-type"), attr_label,
                      ANNOTATE_CONSTRAINT_TYPE)
         [] f = "calculation" -> Derived(attr_label, BindGet(e, "calculate"))
         [] f = "readonly" ->
              Relabel(get_field_or_lang_dict_value(BindGet(e, "readonly"), lang),
                      attr_label, ANNOTATE_READONLY)
         [] f \in {"image", "video", "audio"} ->
              Derived(attr_label,
                      get_field_or_lang_dict_value(MediaGet(e, f), lang))
         [] f = "repeat_count" /\ IsStr(Attr(e, "type"), S_repeat) ->
              DeriveRepeatCount(e, root, attr_label, attr_value)
         [] f = "external" ->
              Relabel(BindGet(e, "oc:external"), attr_label, ANNOTATE_EXTERNAL)
         [] f = "contactdata" ->
              Relabel(InstanceGet(e, "oc:contactdata"), attr_label,
                      ANNOTATE_CONTACTDATA)
         [] f = "choice_filter" ->
              Relabel(attr_value, attr_label, ANNOTATE_CHOICE_FILTER)
         [] f = "identifier" ->
              Derived(attr_label, InstanceGet(e, "oc:identifier"))
         [] f = "custom" -> DeriveCustom(e, attr_label, attr_value)
         [] OTHER -> Derived(attr_label, attr_value)

\* The dispatch on the annotated field.
Derive(e, root, f, lang) ==
    Dispatch(e, root, f, lang, <<Title(f)>>,
             IF hasattr(e, f) THEN Attr(e, f) ELSE PyStr(EmptyStr))

\* '<span style="{}">{}</span>'.format(attr_style, text)
Span(attr_style, text) ==
    <<"<span style=\"", attr_style, "\">">> \o text \o <<"</span>">>

\* " [{}]".format("{}: {}".format(label, value)) with the value processed.
AnnotatedLabelValue(label, value, f) ==
    <<" ", "[">> \o label \o <<":", " ">>
    \o annotated_value_processing(JoinLines(value), f) \o <<"]">>

\* The text as it is added: in a span when the field has a style.
Styled(attr_style, annotated_label_value) ==
    IF attr_style = "" THEN annotated_label_value
    ELSE Span(attr_style, annotated_label_value)

\* The annotated value assignment with the span left out.
AppendAnnotation_no_span(annotated_label, label, value, f, idx, attr_style) ==
    annotated_label
    \o (IF idx = 0 THEN <<"\n">> ELSE <<>>)
    \o AnnotatedLabelValue(label, value, f)

\* The annotated value assignment for one (label, value) of a field: the
\* escaped value as " [label: value]", after a newline when the field is the
\* first of annotated_fields, in a span when the field has a style.
AppendAnnotation(annotated_label, label, value, f, idx, attr_style) ==
    annotated_label
    \o (IF idx = 0 THEN <<"\n">> ELSE <<>>)
    \o Styled(attr_style, AnnotatedLabelValue(label, value, f))

RECURSIVE AssignAnnotations(_, _, _, _, _)
\* for label, value in field_annotations.items(): ...
AssignAnnotations(acc, field_annotations, f, idx, attr_style) ==
    IF field_annotations = <<>> \/ acc.error # "none" THEN acc
    ELSE LET label == Head(field_annotations)[1]
             value == Head(field_annotations)[2]
         IN IF label # EmptyStr /\ NotEmptyStr(value)
            THEN IF value.t # "str"
                 THEN [acc EXCEPT !.error = "AttributeError"]
                 ELSE AssignAnnotations(
                        [acc EXCEPT !.label = AppendAnnotation(
                                        @, label, value.v, f, idx, attr_style)],
                        Tail(field_annotations), f, idx, attr_style)
            ELSE AssignAnnotations(acc, Tail(field_annotations), f, idx,
                                   attr_style)

\* field_annotations as the loop over it finds it: the one pair of the
\* field unless custom annotations were found.
FieldAnnotations(d) ==
    IF Len(d.custom_annotations) = 0
    THEN DictSet(d.field_annotations, d.label, d.value)
    ELSE d.field_annotations

\* annotated_value_styles[annotated_field], or "".
StyleOf(f) ==
    IF f \in DOMAIN annotated_value_styles THEN annotated_value_styles[f] ELSE ""

\* One pass of the loop over annotated_fields, d being what the dispatch
\* left.
AnnotateField(acc, f, idx, d) ==
    AssignAnnotations([acc EXCEPT !.from_file = @ \/ d.from_file,
                                  !.error = d.error],
                      FieldAnnotations(d), f, idx, StyleOf(f))

RECURSIVE AnnotateFields(_, _, _, _, _, _)
\* for idx, annotated_field in enumerate(survey.annotated_fields): ...
AnnotateFields(acc, e, root, lang, fields, idx) ==
    IF idx >= Len(fields) \/ acc.error # "none" THEN acc
    ELSE IF ~hasattr(e, fields[idx + 1]) /\ fields[idx + 1] \notin DispatchFields
    THEN AnnotateFields(acc, e, root, lang, fields, idx + 1)
    ELSE AnnotateFields(
             AnnotateField(acc, fields[idx + 1], idx,
                           Derive(e, root, fields[idx + 1], lang)),
             e, root, lang, fields, idx + 1)

\* The end of the annotated branch: the advisory message after the label of
\* a select from file.
WithMessage(acc) ==
    IF acc.error # "none" THEN Throws(acc.error, PyNone)
    ELSE IF acc.from_file
    THEN Gives(acc.label \o <<"<br>">>
                         \o <<ANNOTATE_SELECT_ONE_FROM_FILE_MESSAGE>>, PyNone)
    ELSE Gives(acc.label, PyNone)

\* The annotated branch of get_annotated_label for a non-choice element,
\* from the escaped label on.
AnnotateNonChoice(e, lang, annotated_label) ==
    WithMessage(AnnotateFields(
                    [label |-> annotated_label, from_file |-> FALSE,
                     error |-> "none"],
                    e, get_root(e), lang, survey.annotated_fields, 0))

\* "{} [{}]".format(choice_label, name)
ChoiceText(choice_label, name) ==
    choice_label.v \o <<" ", "[">> \o name.v \o <<"]">>

\* The choice branch escaping its text as a label.
AnnotateChoice_as_label(e, lang) ==
    Gives(annotated_value_processing(
              ChoiceText(get_field_or_lang_dict_value(Attr(e, "label"), lang),
                         Attr(e, "name")),
              "label"), PyNone)

\* The choice branch: "{} [{}]".format(choice_label, name), escaped as
\* "choices".
AnnotateChoice(e, lang) ==
    Gives(annotated_value_processing(
              ChoiceText(get_field_or_lang_dict_value(Attr(e, "label"), lang),
                         Attr(e, "name")),
              "choices"), PyNone)

\* self.parent.type in [constants.SELECT_ONE, constants.SELECT_ALL_THAT_APPLY]
InSelects(type) == IsStr(type, SELECT_ONE) \/ IsStr(type, SELECT_ALL_THAT_APPLY)

\* The branch of a form that is not annotated: the check of the custom
\* annotations, then the label as looked up.
PlainLabel(error, item_label) ==
    IF error # "none" THEN Throws(error, PyNone)
    ELSE IF item_label.t = "raise" THEN Throws(item_label.v[1], PyNone)
    ELSE Gives(item_label.v, PyNone)

\* The branch of an annotated form for an element under a parent, from the
\* label as looked up.
AnnotatedLabel(e, lang, item_label) ==
    IF item_label.t = "raise" THEN Throws(item_label.v[1], PyNone)
    ELSE IF item_label.t # "str" THEN Throws("TypeError", PyNone)
    ELSE IF InSelects(Attr(parent[e], "type"))
            /\ hasattr(e, "label") /\ hasattr(e, "name")
    THEN AnnotateChoice(e, lang)
    ELSE AnnotateNonChoice(e, lang,
                           annotated_value_processing(item_label.v, "label"))

\* get_annotated_label(lang): the text returned or the exception raised.
\* self.parent.type raises AttributeError for an element without a parent.
get_annotated_label(e, lang) ==
    IF ~survey.annotated
    THEN PlainLabel(check_custom_annotations(e),
                    get_field_or_lang_dict_value(Attr(e, "label"), lang))
    ELSE IF parent[e] = None THEN Throws("AttributeError", PyNone)
    ELSE AnnotatedLabel(e, lang,
                        get_field_or_lang_dict_value(Attr(e, "label"), lang))

\* The record of a call that ended as r says.
Answered(name, e, arg, r) ==
    IF r.error = "none" THEN Returned(name, e, arg, r.result)
    ELSE Raised(name, e, arg, r.error)

GetAnnotatedLabel(e, lang) ==
    /\ Terminates(e)
    /\ op' = Answered("get_annotated_label", e, <<lang>>,
                      get_annotated_label(e, lang))
    /\ UNCHANGED <<created, parent, children, attrs, survey, qtd, any_repeat_cache>>

----------------------------------------------------------------------------
(* Tree building: a caller constructs elements, with or without initial    *)
(* children, and attaches them with add_child and add_children.            *)

NoSurvey == [annotated |-> FALSE, annotated_fields |-> <<>>]

NoOp == Returned("none", None, <<>>, <<>>)

\* The lists of already built elements a caller may pass.
ElemLists == {<<>>} \cup {<<a>> : a \in created}
                    \cup {<<a, b>> : a, b \in created}

Init ==
    /\ created = {}
    /\ parent = [e \in Elems |-> None]
    /\ children = [e \in Elems |-> <<>>]
    /\ attrs = [e \in Elems |-> DefaultAttrs]
    /\ survey = NoSurvey
    /\ qtd = <<>>
    /\ any_repeat_cache = {}
    /\ op = NoOp

Next ==
    \/ \E kids \in ElemLists :
         Construct([DefaultAttrs EXCEPT !.name = NameOf(NewElem)], kids)
    \/ \E p, c \in created : AddChild(p, c)
    \/ \E p \in created, kids \in ElemLists :
         AddChildren(p, [list |-> TRUE, v |-> kids])
    \/ \E p, c \in created : AddChildren(p, [list |-> FALSE, v |-> c])

Spec == Init /\ [][Next]_vars

----------------------------------------------------------------------------
(* Path derivation: a caller builds elements, flat or not, attaches them   *)
(* with add_child and asks for lineages and xpaths.                        *)

NextPath ==
    \/ \E fl \in BOOLEAN :
         Construct([DefaultAttrs EXCEPT !.name = NameOf(NewElem), !.flat = fl],
                   <<>>)
    \/ \E p, c \in created : AddChild(p, c)
    \/ \E e \in created : GetLineage(e)
    \/ \E e \in created : GetXpath(e)
    \/ \E e \in created : GetAbbreviatedXpath(e)

SpecPath == Init /\ [][NextPath]_vars

----------------------------------------------------------------------------
(* Claims about the tree.                                                  *)

\* The number of times c occurs in the children list of p.
Occurs(p, c) == Cardinality({i \in 1..Len(children[p]) : children[p][i] = c})

Owners(c) == {p \in Elems : Occurs(p, c) > 0}

\* Every child's parent entry is the owner of the list it is in.
Linked == \A p \in Elems : \A i \in 1..Len(children[p]) :
              parent[children[p][i]] = p

\* An element in some children list is in exactly one, its parent's.
OneOwner == \A c \in Elems : Owners(c) # {} => Owners(c) = {parent[c]}

\* No element was attached while it already was in a children list.
AttachedOnce == \A c \in Elems :
    \A p, q \in Elems : (Occurs(p, c) > 0 /\ Occurs(q, c) > 0) =>
                            (p = q /\ Occurs(p, c) = 1)

\* C1 as stated: in every state reachable by construction and any sequence
\* of add_child / add_children calls, each child's parent is the owner of
\* the children list it is in, and it is in exactly one children list.
C1_AnySequenceLinked == Linked /\ OneOwner

\* C1, amended: as long as every element has been attached at most once
\* (no element occurs twice over all children lists), each child's parent
\* is the owner of the children list it is in, and that list is the only one.
C1_AttachedOnceLinked == AttachedOnce => (Linked /\ OneOwner)

\* Two elements attached, one by add_children, none of them twice.
C1_Witness ==
    /\ AttachedOnce
    /\ Attached >= 2
    /\ op.name = "add_children"
    /\ \E p \in created : Len(children[p]) >= 1 /\ parent[p] # None

RECURSIVE ParentChain(_)
\* [root, ..., e.parent, e], for an element whose parent chain ends.
ParentChain(e) ==
    IF parent[e] = None THEN <<e>> ELSE Append(ParentChain(parent[e]), e)

RECURSIVE DropFlat(_)
DropFlat(chain) ==
    IF chain = <<>> THEN <<>>
    ELSE IF attrs[Head(chain)].flat THEN DropFlat(Tail(chain))
    ELSE <<Head(chain)>> \o DropFlat(Tail(chain))

\* The parent chain without its flat nodes, the first node always kept.
ExpectedLineage(e) ==
    LET chain == ParentChain(e) IN <<Head(chain)>> \o DropFlat(Tail(chain))

RECURSIVE Slashed(_)
\* "/" + name for every node, concatenated.
Slashed(nodes) ==
    IF nodes = <<>> THEN <<>>
    ELSE <<"/">> \o attrs[Head(nodes)].name \o Slashed(Tail(nodes))

\* C2: get_lineage(e) is the parent chain [root, ..., e] without the flat
\* nodes other than the root, and get_xpath(e) is "/" followed by the names
\* of the lineage joined by "/".
C2_LineageAndXpath ==
    /\ op.name = "get_lineage" => op.result = ExpectedLineage(op.self)
    /\ op.name = "get_xpath" => op.result = Slashed(ExpectedLineage(op.self))

\* The xpath of a leaf under a flat node under a flat root was asked for.
C2_Witness ==
    /\ op.name = "get_xpath"
    /\ Len(ParentChain(op.self)) = 3
    /\ attrs[ParentChain(op.self)[1]].flat
    /\ attrs[ParentChain(op.self)[2]].flat
    /\ Len(op.result) > 0

\* C3 as stated: for every element, the root and flat elements included,
\* get_abbreviated_xpath is the "/"-joined names of the lineage without its
\* first node.
C3_AbbreviatedAlwaysTail ==
    op.name = "get_abbreviated_xpath" =>
        <<"/">> \o op.result = Slashed(Tail(ExpectedLineage(op.self)))
        \/ (Len(ExpectedLineage(op.self)) = 1 /\ op.result = <<>>)

\* C3, amended: when the lineage has at least two nodes, get_xpath is "/",
\* the root's name, "/" and get_abbreviated_xpath; when the lineage is the
\* root alone, get_abbreviated_xpath is the root's bare name.
C3_AbbreviatedOrRootName ==
    op.name = "get_abbreviated_xpath" =>
        LET lin == ExpectedLineage(op.self)
            rootname == attrs[Head(lin)].name
        IN IF Len(lin) >= 2
           THEN get_xpath(op.self) = <<"/">> \o rootname \o <<"/">> \o op.result
           ELSE op.result = rootname

\* get_abbreviated_xpath was asked of a flat child of the root, whose
\* lineage is the root alone.
C3_Witness ==
    /\ op.name = "get_abbreviated_xpath"
    /\ parent[op.self] # None
    /\ Len(ExpectedLineage(op.self)) = 1
    /\ op.result = attrs[parent[op.self]].name

----------------------------------------------------------------------------
(* Attribute resolution: one element of type "string", whose entries and   *)
(* whose type defaults for "appearance" and "parameters" are any of a str, *)
(* a dict, None or nothing at all.                                         *)

S_string == <<"s", "t", "r", "i", "n", "g">>
S_minimal == <<"m", "i", "n", "i", "m", "a", "l">>
S_custom == <<"c", "u", "s", "t", "o", "m">>

\* Values a type default may have.
DefaultValues ==
    {PyNone, PyStr(EmptyStr), PyStr(S_minimal), PyDict(<<>>),
     PyDict(<< <<<<"tag">>, PyStr(<<"i">>)>>, <<<<"rows">>, PyStr(<<"5">>)>> >>)}

\* Values a caller may store in an entry.
InstanceValues ==
    {PyNone, PyStr(EmptyStr), PyStr(S_custom), PyDict(<<>>),
     PyDict(<< <<<<"rows">>, PyStr(<<"9">>)>>, <<<<"cols">>, PyStr(<<"2">>)>> >>)}

\* The defaults of one type: an entry, or none, for each of the two fields.
TypeDefaults ==
    {<<>>}
    \cup {<< <<"appearance", x>> >> : x \in DefaultValues}
    \cup {<< <<"parameters", y>> >> : y \in DefaultValues}
    \cup {<< <<"appearance", x>>, <<"parameters", y>> >> :
             x \in {PyStr(S_minimal)}, y \in DefaultValues}

InitOverlay ==
    /\ created = {1}
    /\ parent = [e \in Elems |-> None]
    /\ children = [e \in Elems |-> <<>>]
    /\ \E x, y \in InstanceValues :
         attrs = [e \in Elems |->
                    IF e = 1
                    THEN [DefaultAttrs EXCEPT !.name = NameOf(1),
                                              !.type = S_string,
                                              !.appearance = x,
                                              !.parameters = y]
                    ELSE DefaultAttrs]
    /\ survey = NoSurvey
    /\ qtd \in {<<>>} \cup {<< <<S_string, d>> >> : d \in TypeDefaults}
    /\ any_repeat_cache = {}
    /\ op = NoOp

NextOverlay ==
    \E e \in created, key \in {"appearance", "parameters", "name", "required"} :
        GetAttr(e, key)

SpecOverlay == InitOverlay /\ [][NextOverlay]_vars

\* The call recorded in op resolved a declared field.
Resolved == op.name = "__getattr__" /\ op.arg[1] \in FIELDS

\* The type default and the instance value the recorded call started from.
UnderOf == DictGet(DictGet(op.pre.qtd, op.pre.attrs.type, <<>>),
                   op.arg[1], PyNone)
OverOf == RawGet(op.pre.attrs, op.arg[1])

\* C4: with an empty or absent type default the raw instance value is
\* returned; with a non-mapping default the instance value when truthy and
\* the default otherwise; with a mapping default and a mapping instance
\* value the result has every default key, instance keys overriding; and
\* neither the type-default table nor the element's entries are modified.
C4_OverlayResolution ==
    Resolved =>
      /\ ~Truthy(UnderOf) => (op.error = "none" /\ op.result = OverOf)
      /\ (Truthy(UnderOf) /\ UnderOf.t # "dict") =>
            /\ op.error = "none"
            /\ op.result = IF Truthy(OverOf) THEN OverOf ELSE UnderOf
      /\ (Truthy(UnderOf) /\ UnderOf.t = "dict" /\ OverOf.t = "dict") =>
            /\ op.error = "none"
            /\ op.result.t = "dict"
            /\ DictKeys(op.result.v) = DictKeys(UnderOf.v) \cup DictKeys(OverOf.v)
            /\ \A k \in DictKeys(OverOf.v) :
                  DictGet(op.result.v, k, PyNone) = DictGet(OverOf.v, k, PyNone)
            /\ \A k \in DictKeys(UnderOf.v) \ DictKeys(OverOf.v) :
                  DictGet(op.result.v, k, PyNone) = DictGet(UnderOf.v, k, PyNone)
      /\ qtd = op.pre.qtd
      /\ attrs[op.self] = op.pre.attrs

\* A mapping instance value was resolved over a mapping default that has a
\* key of its own and a key the instance overrides.
C4_Witness ==
    /\ Resolved
    /\ UnderOf.t = "dict" /\ OverOf.t = "dict"
    /\ DictKeys(UnderOf.v) \ DictKeys(OverOf.v) # {}
    /\ DictKeys(UnderOf.v) \cap DictKeys(OverOf.v) # {}
    /\ DictGet(op.result.v, <<"rows">>, PyNone) = PyStr(<<"9">>)

\* C5 as stated: a non-empty scalar instance value over a mapping default is
\* returned itself, and resolving a declared field never raises.
C5_ScalarReplacesMapping ==
    Resolved =>
      /\ op.error = "none"
      /\ (Truthy(UnderOf) /\ UnderOf.t = "dict" /\ OverOf.t = "str"
          /\ Truthy(OverOf)) => op.result = OverOf

----------------------------------------------------------------------------
(* Value escaping: any short text over the characters the rules look at,   *)
(* and the texts of the documented examples, for a field of every kind.    *)

MaxStrLen == 3

EscapeAlphabet == {"a", "_", "{", "}", "$", ">", "<", "*"}

RECURSIVE StringsUpTo(_)
StringsUpTo(n) ==
    IF n = 0 THEN {<<>>}
    ELSE LET shorter == StringsUpTo(n - 1)
         IN shorter \cup {Append(s, c) : s \in shorter, c \in EscapeAlphabet}

S_Label_One == <<"L", "a", "b", "e", "l", "_", "O", "n", "e">>

\* "a_b>c<d*e"
S_compared == <<"a", "_", "b", ">", "c", "<", "d", "*", "e">>
\* "N_f ${i_n_1} & ${i_n_2}": free text and two references.
S_two_refs == <<"N", "_", "f", " ", "$", "{", "i", "_", "n", "_", "1", "}", " ",
                "&", " ", "$", "{", "i", "_", "n", "_", "2", "}">>
\* "${a_b}${a_b}": one reference twice.
S_same_ref_twice == <<"$", "{", "a", "_", "b", "}", "$", "{", "a", "_", "b", "}">>
\* "${a_b} ${x_${a_b}": a reference whose text holds an earlier one.
S_ref_in_ref == <<"$", "{", "a", "_", "b", "}", " ",
                  "$", "{", "x", "_", "$", "{", "a", "_", "b", "}">>

EscapeValues ==
    StringsUpTo(MaxStrLen)
    \cup {S_Label_One, S_compared, S_two_refs, S_same_ref_twice, S_ref_in_ref}

EscapeFieldNames == {"label", "choices", "name", "default", "trigger",
                     "readonly"}

InitEscape ==
    /\ created = {}
    /\ parent = [e \in Elems |-> None]
    /\ children = [e \in Elems |-> <<>>]
    /\ attrs = [e \in Elems |-> DefaultAttrs]
    /\ survey = NoSurvey
    /\ qtd = <<>>
    /\ any_repeat_cache = {}
    /\ \E value \in EscapeValues, field_name \in EscapeFieldNames :
         op = Pending("annotated_value_processing", <<value, field_name>>)

NextEscape == Escape

SpecEscape == InitEscape /\ [][NextEscape]_vars

\* The value with "[" for every "{" and "]" for every "}", nothing else
\* changed.
BracesOnly(value) ==
    [i \in 1..Len(value) |->
        IF value[i] = "{" THEN "[" ELSE IF value[i] = "}" THEN "]" ELSE value[i]]

EscapedChoices ==
    /\ op.name = "annotated_value_processing"
    /\ op.error = "none"
    /\ op.arg[2] = "choices"

\* C7 as stated: with field kind "choices" every underscore of the value is
\* escaped: "Label_One" gives "Label\_One".
C7_ChoicesUnderscoreEscaped ==
    EscapedChoices =>
        /\ \A i \in 1..Len(op.result) :
              op.result[i] = "_" => (i > 1 /\ op.result[i - 1] = "\\")
        /\ op.arg[1] = S_Label_One =>
              op.result = <<"L", "a", "b", "e", "l", "\\", "_", "O", "n", "e">>

\* C7, amended: with field kind "choices" no underscore is escaped; the
\* value is returned with braces replaced by brackets and nothing else
\* changed: "Label_One" gives "Label_One".
C7_ChoicesUnderscoreKept ==
    EscapedChoices =>
        /\ op.result = BracesOnly(op.arg[1])
        /\ op.arg[1] = S_Label_One => op.result = S_Label_One

C7_Witness ==
    /\ EscapedChoices
    /\ op.arg[1] = S_Label_One
    /\ op.result = S_Label_One

\* The last call is annotated_value_processing and it returned.
EscapeReturned ==
    op.name = "annotated_value_processing" /\ op.error = "none"

\* C11: for every field name and every value the result of
\* annotated_value_processing holds no "{" and no "}".
C11_NoBraceLeft ==
    EscapeReturned =>
        \A i \in 1..Len(op.result) : op.result[i] \notin {"{", "}"}

\* A reference starts at i: "${", then the nearest "}" with no line break
\* before it.
RefAt(s, i) ==
    /\ StartsAt(s, i, <<"$", "{">>)
    /\ \E j \in (i + 2)..Len(s) :
         s[j] = "}" /\ \A k \in (i + 2)..(j - 1) : s[k] \notin {"}", "\n"}
\* The position where the reference that starts at i ends.
RefEnd(s, i) == CHOOSE j \in (i + 2)..Len(s) :
                    s[j] = "}" /\ \A k \in (i + 2)..(j - 1) : s[k] # "}"

\* One character as the claims describe it for a field: the underscore
\* behind a backslash when escaped is TRUE, braces as brackets.
EscapedChar(c, escaped) ==
    IF c = "_" /\ escaped THEN <<"\\", "_">>
    ELSE IF c = "{" THEN <<"[">>
    ELSE IF c = "}" THEN <<"]">>
    ELSE <<c>>

RECURSIVE LabelAsClaimed(_, _, _)
\* The label from position i on, stop being the end of the reference that
\* position i is in (0 outside references): underscores inside references
\* behind one backslash, the others unchanged, braces as brackets.
LabelAsClaimed(s, i, stop) ==
    IF i > Len(s) THEN <<>>
    ELSE IF i > stop /\ RefAt(s, i)
    THEN EscapedChar(s[i], TRUE) \o LabelAsClaimed(s, i + 1, RefEnd(s, i))
    ELSE EscapedChar(s[i], i <= stop) \o LabelAsClaimed(s, i + 1, stop)

\* C12: for field "label" every underscore inside a ${...} reference is
\* preceded by exactly one backslash in the result, every underscore outside
\* references is unchanged, and braces become brackets.
C12_LabelRefsEscaped ==
    (EscapeReturned /\ op.arg[2] = "label") =>
        op.result = LabelAsClaimed(op.arg[1], 1, 0)

\* The characters of a value for a field other than label, choices and the
\* pass-through fields, as C13 describes them.
FieldCharAsClaimed(c, field_name) ==
    IF c = ">" /\ field_name \in {"relevant", "required", "constraint",
                                  "default", "choice_filter", "calculation",
                                  "trigger", "repeat_count", "custom"}
    THEN <<"g", "t">>
    ELSE IF c = "<" /\ field_name \in {"relevant", "required", "constraint",
                                       "default", "choice_filter",
                                       "calculation", "trigger",
                                       "repeat_count", "custom"}
    THEN <<"l", "t">>
    ELSE IF c = "*" /\ field_name \in {"relevant", "constraint", "default",
                                       "calculation", "required", "custom"}
    THEN <<"\\", "*">>
    ELSE EscapedChar(c, TRUE)

\* C13: for a field other than label, choices and the pass-through fields
\* every underscore becomes "\_"; ">" becomes "gt" and "<" becomes "lt" for
\* the fields of the comparison set, "*" becomes "\*" for the fields of the
\* star set, and the fields outside a set keep those characters.
C13_FieldEscaping ==
    (EscapeReturned
       /\ op.arg[2] \notin {"label", "choices", "readonly", "external",
                            "contactdata", "constraint_type", "required_type",
                            "identifier"}) =>
        op.result = Flatten([i \in 1..Len(op.arg[1]) |->
                                FieldCharAsClaimed(op.arg[1][i], op.arg[2])])

C13_Witness ==
    /\ EscapeReturned /\ op.arg = <<S_compared, "trigger">>
    /\ op.result = <<"a", "\\", "_", "b", "g", "t", "c", "l", "t", "d", "*", "e">>

\* C14 as stated: "a_b>c<d*e" for field "default" gives "a\_b gt c lt d\*e".
C14_SpacedWords ==
    (EscapeReturned /\ op.arg = <<S_compared, "default">>) =>
        op.result = <<"a", "\\", "_", "b", " ", "g", "t", " ", "c", " ", "l", "t",
                      " ", "d", "\\", "*", "e">>

\* C14, amended: "a_b>c<d*e" for field "default" gives "a\_bgtcltd\*e", the
\* signs replaced by the bare words.
C14_BareWords ==
    (EscapeReturned /\ op.arg = <<S_compared, "default">>) =>
        op.result = <<"a", "\\", "_", "b", "g", "t", "c", "l", "t", "d", "\\",
                      "*", "e">>

C14_Witness ==
    EscapeReturned /\ op.arg = <<S_compared, "default">> /\ Len(op.result) = 13

----------------------------------------------------------------------------
(* Label annotation: a survey with one element under the root and one      *)
(* element under that, in either mode, and a caller about to ask one of    *)
(* the elements for its annotated label.                                   *)

S_survey == <<"s", "u", "r", "v", "e", "y">>
S_en == <<"e", "n">>
S_fr == <<"f", "r">>

\* Labels a caller may give: plain, with underscores and a reference, and
\* one text per language.
Label_plain == PyStr(<<"N">>)
Label_marked == PyStr(<<"a", "_", "$", "{", "b", "_", "c", "}">>)
Label_multi == PyDict(<< <<S_en, PyStr(<<"E", "_">>)>>, <<S_fr, PyStr(<<"F">>)>> >>)
LabelSamples == {Label_plain, Label_marked, Label_multi}

\* Bind tables a caller may give.
Bind_relevant ==
    << <<<<"relevant">>, PyStr(<<"$", "{", "a", "_", "b", "}", "\n", ">", "1">>)>> >>
Bind_custom ==
    << <<<<OC_CUSTOM_ANNOTATION_PREFIX, "a", "_", "b">>, PyStr(<<"x", "_">>)>>,
       <<<<"calculate">>, PyStr(<<"1">>)>>,
       <<<<OC_CUSTOM_ANNOTATION_PREFIX, "c">>, PyStr(<<"y">>)>> >>
Bind_custom_invalid ==
    << <<<<OC_CUSTOM_ANNOTATION_PREFIX, "-", "a">>, PyStr(<<"z">>)>> >>
Bind_count == << <<<<"calculate">>, PyStr(<<"3">>)>> >>
BindSamples == {<<>>, Bind_relevant, Bind_custom, Bind_custom_invalid}

\* (type, list_name, itemset) of a question.
TypeSamples ==
    {<<S_string, EmptyStr, EmptyStr>>, <<S_photo, EmptyStr, EmptyStr>>}
    \cup {<<t, l[1], l[2]>> :
            t \in {SELECT_ONE, SELECT_ALL_THAT_APPLY},
            l \in {<<EmptyStr, EmptyStr>>, <<<<"c", "1">>, <<"f">>>>,
                   <<EmptyStr, <<"f">>>>}}

Question(name, ty, label, bind) ==
    [DefaultAttrs EXCEPT !.name = name, !.type = ty[1], !.list_name = ty[2],
                         !.itemset = ty[3], !.label = label, !.bind = bind]

\* The element under the root and the element under it: a question in a
\* group, a choice in a select, or a repeat beside its count.
Scenarios ==
    {<<Question(<<"g", "_", "1">>, <<S_group, EmptyStr, EmptyStr>>,
                Label_plain, <<>>),
       Question(<<"n", "_", "1">>, ty, label, bind)>> :
        ty \in TypeSamples, label \in LabelSamples, bind \in BindSamples}
    \cup
    {<<Question(<<"q">>, <<ty, <<"c", "1">>, EmptyStr>>, Label_plain, <<>>),
       Question(name, <<EmptyStr, EmptyStr, EmptyStr>>, label, <<>>)>> :
        ty \in {SELECT_ONE, SELECT_ALL_THAT_APPLY},
        name \in {<<"1">>, <<"2", "_">>}, label \in LabelSamples}
    \cup
    {<<Question(<<"r", "_", "c", "o", "u", "n", "t">>,
                <<S_group, EmptyStr, EmptyStr>>, Label_plain, Bind_count),
       Question(<<"r">>, <<S_repeat, EmptyStr, EmptyStr>>, Label_plain, <<>>)>>}

AnnotFieldNames == {"type", "name", "relevant", "custom", "list_name",
                    "repeat_count"}
\* The survey's annotated_fields when some are configured.
FieldLists == UNION {[1..n -> AnnotFieldNames] : n \in 1..MaxFields}

Languages == {PyNone, PyStr(S_en)}

InitAnnot ==
    /\ created = {1, 2, 3}
    /\ parent = [e \in Elems |-> IF e \in {2, 3} THEN e - 1 ELSE None]
    /\ children = [e \in Elems |-> IF e \in {1, 2} THEN <<e + 1>> ELSE <<>>]
    /\ \E sc \in Scenarios :
         attrs = [e \in Elems |->
                    IF e = 1 THEN [DefaultAttrs EXCEPT !.name = NameOf(1),
                                                       !.type = S_survey]
                    ELSE IF e \in {2, 3} THEN sc[e - 1]
                    ELSE DefaultAttrs]
    \* is_annotated_form() holds when annotated_fields are configured.
    /\ \/ survey = NoSurvey
       \/ \E fs \in FieldLists :
            survey = [annotated |-> TRUE, annotated_fields |-> fs]
    /\ qtd = <<>>
    /\ any_repeat_cache = {}
    /\ \E e \in {1, 2, 3}, lang \in Languages :
         op = [Pending("get_annotated_label", <<lang>>) EXCEPT !.self = e]

\* The caller makes the call it set out to make.
NextAnnot ==
    \E e \in created, lang \in Languages :
        /\ op.error = "pending" /\ op.self = e /\ op.arg = <<lang>>
        /\ GetAnnotatedLabel(e, lang)

SpecAnnot == InitAnnot /\ [][NextAnnot]_vars

----------------------------------------------------------------------------
(* Claims about annotated labels.                                          *)

\* The last call is get_annotated_label on an annotated form.
AnnotCall ==
    op.name = "get_annotated_label" /\ op.error # "pending" /\ survey.annotated
IsChoice(e) ==
    /\ parent[e] # None
    /\ attrs[parent[e]].type \in {SELECT_ONE, SELECT_ALL_THAT_APPLY}
\* The call is on an element under a parent that is not a select.
NonChoiceCall == AnnotCall /\ parent[op.self] # None /\ ~IsChoice(op.self)
\* The user label as looked up for the language of the call.
LabelText(e, lang) == get_field_or_lang_dict_value(attrs[e].label, lang).v
\* The label is one text, or the text of a language is asked for.
LanguageSettled(e, lang) == attrs[e].label.t = "str" \/ lang.t = "str"
EscapedLabel(e, lang) == annotated_value_processing(LabelText(e, lang), "label")

\* C6: on an annotated form the label of a choice (an element whose parent
\* is a select one or select all that apply) is "<label> [<name>]", the
\* label being the one text of the element or its text for the requested
\* language, with the braces turned to brackets and nothing else changed or
\* appended (no backslash, annotation, newline or message), whatever
\* annotated_fields holds.
C6_ChoiceLabel ==
    (AnnotCall /\ IsChoice(op.self) /\ LanguageSettled(op.self, op.arg[1])) =>
        /\ op.error = "none"
        /\ op.result = BracesOnly(LabelText(op.self, op.arg[1]) \o <<" ", "[">>
                                  \o attrs[op.self].name \o <<"]">>)

C6_Witness ==
    /\ AnnotCall /\ IsChoice(op.self) /\ op.error = "none"
    /\ attrs[op.self].label = Label_marked
    /\ attrs[op.self].name = <<"2", "_">>
    /\ survey.annotated_fields = <<"type", "name">>
    /\ op.result = <<"a", "_", "$", "[", "b", "_", "c", "]", " ", "[", "2", "_",
                     "]">>

SelectFromFileSuffix == <<"<br>", ANNOTATE_SELECT_ONE_FROM_FILE_MESSAGE>>
EndsWith(s, t) ==
    Len(s) >= Len(t) /\ SubSeq(s, Len(s) - Len(t) + 1, Len(s)) = t
\* The composed label without the advisory message at its end.
BeforeMessage(s) ==
    IF EndsWith(s, SelectFromFileSuffix)
    THEN SubSeq(s, 1, Len(s) - Len(SelectFromFileSuffix)) ELSE s
WithoutNewlines(s) == SelectSeq(s, LAMBDA c : c # "\n")

\* The field is one the per-field loop does not skip.
Recognized(e, f) == hasattr(e, f) \/ f \in DispatchFields

\* The (label, value) pairs an entry of annotated_fields derives: one per
\* custom bind key for "custom" on an element that has some, else one.
PairsOf(e, f, lang) ==
    LET d == Derive(e, get_root(e), f, lang)
    IN IF d.custom_annotations = <<>> THEN << <<d.label, d.value>> >>
       ELSE d.field_annotations
\* The one (label, value) pair an entry is left with.
LastPairOf(e, f, lang) ==
    LET d == Derive(e, get_root(e), f, lang) IN << <<d.label, d.value>> >>

\* " [<Label>: <value>]" with the value escaped for the field, in a span when
\* the field has a style.
Segment(f, pair) ==
    LET text == <<" ", "[">> \o pair[1] \o <<":", " ">>
                \o annotated_value_processing(JoinLines(pair[2].v), f)
                \o <<"]">>
    IN IF f \in DOMAIN annotated_value_styles
       THEN <<"<span style=\"", annotated_value_styles[f], "\">">>
            \o text \o <<"</span>">>
       ELSE text

RECURSIVE SegmentsOfPairs(_, _)
SegmentsOfPairs(f, pairs) ==
    IF pairs = <<>> THEN <<>>
    ELSE (IF Head(pairs)[1] # EmptyStr /\ NotEmptyStr(Head(pairs)[2])
          THEN Segment(f, Head(pairs)) ELSE <<>>)
         \o SegmentsOfPairs(f, Tail(pairs))

RECURSIVE SegmentsOf(_, _, _, _)
\* The segments of the entries of fields, in order; every pair of an entry
\* when each is TRUE, else the one pair the entry is left with.
SegmentsOf(e, lang, fields, each) ==
    IF fields = <<>> THEN <<>>
    ELSE LET f == Head(fields) IN
         (IF ~Recognized(e, f) THEN <<>>
          ELSE SegmentsOfPairs(f, IF each THEN PairsOf(e, f, lang)
                                  ELSE LastPairOf(e, f, lang)))
         \o SegmentsOf(e, lang, Tail(fields), each)

C9_OneNewlineAfterLabel ==
    (NonChoiceCall /\ op.error = "none") =>
        LET user == EscapedLabel(op.self, op.arg[1])
            body == BeforeMessage(op.result)
        IN Len(body) > Len(user) =>
             /\ SubSeq(body, 1, Len(user) + 1) = user \o <<"\n">>
             /\ \A i \in (Len(user) + 2)..Len(body) : body[i] # "\n"

\* The element is a select one or select all that apply with an itemset and
\* no list_name.
IsSelectFromFile(e) ==
    /\ attrs[e].type \in {SELECT_ONE, SELECT_ALL_THAT_APPLY}
    /\ attrs[e].itemset # EmptyStr
    /\ attrs[e].list_name = EmptyStr

\* C10: on an annotated form the label of a select from file ends with
\* "<br>" and the advisory message, after all annotations, for every
\* annotated_fields; the label of any other element has neither.
C10_MessageIffFromFile ==
    (NonChoiceCall /\ op.error = "none") =>
        IF IsSelectFromFile(op.self)
        THEN EndsWith(op.result, SelectFromFileSuffix)
        ELSE \A i \in 1..Len(op.result) :
                 op.result[i] \notin {"<br>", ANNOTATE_SELECT_ONE_FROM_FILE_MESSAGE}


----------------------------------------------------------------------------
(* Translations: get_translations and needs_itext_ref.                     *)

JR_constraintMsg == "jr:constraintMsg"
JR_requiredMsg == "jr:requiredMsg"
JR_noAppErrorString == "jr:noAppErrorString"

\* self.get_xpath() + ":" + display_element
_translation_path(e, display_element) ==
    get_xpath(e) \o <<":">> \o <<display_element>>

\* type(self.label) is dict or (type(self.media) is dict and len(self.media) > 0)
needs_itext_ref(e) ==
    \/ Attr(e, "label").t = "dict"
    \/ Attr(e, "media").t = "dict" /\ Len(Attr(e, "media").v) > 0

\* The record yielded for one text of a bind message.
MessageRecord(e, field, lang, text) ==
    [path |-> _translation_path(e, field), lang |-> lang, text |-> text,
     output_context |-> e]

\* The records of one bind message field: one per language of a dict; with
\* the elif branch (has_elif), one for a str in which BRACKETED_TAG_REGEX
\* finds a reference.
MessageRecords(e, field, msg, default_language, has_elif) ==
    IF msg.t = "dict"
    THEN [i \in 1..Len(msg.v) |->
            MessageRecord(e, field, msg.v[i][1], msg.v[i][2])]
    ELSE IF has_elif /\ Truthy(msg) /\ FindRefs(msg.v) # <<>>
    THEN <<MessageRecord(e, field, default_language, msg)>>
    ELSE <<>>

\* The bind message part with the elif branch on jr:noAppErrorString too.
BindRecords_elif_everywhere(e, bind_dict, default_language) ==
    IF Len(bind_dict) > 0
    THEN MessageRecords(e, JR_constraintMsg,
                        DictGet(bind_dict, <<JR_constraintMsg>>, PyNone),
                        default_language, TRUE)
         \o MessageRecords(e, JR_requiredMsg,
                           DictGet(bind_dict, <<JR_requiredMsg>>, PyNone),
                           default_language, TRUE)
         \o MessageRecords(e, JR_noAppErrorString,
                           DictGet(bind_dict, <<JR_noAppErrorString>>, PyNone),
                           default_language, TRUE)
    ELSE <<>>

\* if bind_dict and type(bind_dict) is dict: the three message fields in the
\* order of the code; jr:noAppErrorString has the dict branch only.
BindRecords(e, bind_dict, default_language) ==
    IF Len(bind_dict) > 0
    THEN MessageRecords(e, JR_constraintMsg,
                        DictGet(bind_dict, <<JR_constraintMsg>>, PyNone),
                        default_language, TRUE)
         \o MessageRecords(e, JR_requiredMsg,
                           DictGet(bind_dict, <<JR_requiredMsg>>, PyNone),
                           default_language, TRUE)
         \o MessageRecords(e, JR_noAppErrorString,
                           DictGet(bind_dict, <<JR_noAppErrorString>>, PyNone),
                           default_language, FALSE)
    ELSE <<>>

\* {default_language: label_or_hint}
Wrap(default_language, value) == PyDict(<< <<default_language, value>> >>)

\* The wrapping with the hint wrapped whatever guidance_hint holds.
LabelOrHint_hint_alone(e, display_element, value, default_language) ==
    IF display_element = "label"
    THEN IF needs_itext_ref(e) /\ value.t # "dict" /\ Truthy(value)
         THEN Wrap(default_language, value) ELSE value
    ELSE IF value.t # "dict" /\ Len(value.v) > 0
         THEN Wrap(default_language, value) ELSE value

\* label_or_hint = self[display_element], wrapped when the element needs an
\* itext reference and holds a scalar.
LabelOrHint(e, display_element, value, default_language) ==
    IF display_element = "label"
    THEN IF needs_itext_ref(e) /\ value.t # "dict" /\ Truthy(value)
         THEN Wrap(default_language, value) ELSE value
    ELSE IF display_element = "guidance_hint"
    THEN IF value.t # "dict" /\ Len(value.v) > 0
         THEN Wrap(default_language, value) ELSE value
    ELSE IF /\ value.t # "dict" /\ Len(value.v) > 0
            /\ Len(attrs[e].guidance_hint.v) > 0
         THEN Wrap(default_language, value) ELSE value

\* The text of a record: for a label, self.get_annotated_label(lang).
TextOf(e, display_element, lang, text) ==
    IF display_element = "label" THEN get_annotated_label(e, PyStr(lang))
    ELSE Gives(text.v, PyNone)

DisplayRecord(e, display_element, lang, r) ==
    [display_element |-> display_element,
     path |-> _translation_path(e, display_element),
     element |-> e, output_context |-> e, lang |-> lang, text |-> r]

\* if type(label_or_hint) is dict: one record per (lang, text).
DisplayRecords(e, display_element, label_or_hint) ==
    IF label_or_hint.t = "dict"
    THEN [i \in 1..Len(label_or_hint.v) |->
            DisplayRecord(e, display_element, label_or_hint.v[i][1],
                          TextOf(e, display_element, label_or_hint.v[i][1],
                                 label_or_hint.v[i][2]))]
    ELSE <<>>

\* for display_element in ["label", "hint", "guidance_hint"]
AllDisplayRecords(e, default_language) ==
    DisplayRecords(e, "label",
                   LabelOrHint(e, "label", attrs[e].label, default_language))
    \o DisplayRecords(e, "hint",
                      LabelOrHint(e, "hint", attrs[e].hint, default_language))
    \o DisplayRecords(e, "guidance_hint",
                      LabelOrHint(e, "guidance_hint", attrs[e].guidance_hint,
                                  default_language))

\* What a caller that exhausts the generator gets: the records, or the first
\* exception get_annotated_label raised.
Yielded(messages, records) ==
    IF \E i \in 1..Len(records) : records[i].text.error # "none"
    THEN Throws(records[CHOOSE i \in 1..Len(records) :
                          /\ records[i].text.error # "none"
                          /\ \A j \in 1..(i - 1) :
                                records[j].text.error = "none"].text.error,
                PyNone)
    ELSE Gives(messages \o [i \in 1..Len(records) |->
                              [records[i] EXCEPT !.text = PyStr(@.result)]],
               PyNone)

get_translations(e, default_language) ==
    Yielded(BindRecords(e, attrs[e].bind, default_language),
            AllDisplayRecords(e, default_language))

GetTranslations(e, default_language) ==
    /\ Terminates(e)
    /\ op' = Answered("get_translations", e, <<default_language>>,
                      get_translations(e, default_language))
    /\ UNCHANGED <<created, parent, children, attrs, survey, qtd, any_repeat_cache>>

----------------------------------------------------------------------------
(* Specification of translations: a question under the root, its bind      *)
(* messages, label, media, hint and guidance hint drawn from samples.      *)

S_default == <<"d", "e", "f", "a", "u", "l", "t">>

\* Values a bind message may hold: a text per language, a text with a
\* reference, a text without, the empty text.
Msg_multi == PyDict(<< <<S_en, PyStr(<<"E">>)>>, <<S_fr, PyStr(<<"F">>)>> >>)
Msg_ref == PyStr(<<"$", "{", "a", "}", "!">>)
Msg_plain == PyStr(<<"n", "o">>)
MessageSamples == {Msg_multi, Msg_ref, Msg_plain, PyStr(EmptyStr)}
MessageFields == {JR_constraintMsg, JR_requiredMsg, JR_noAppErrorString}

\* Bind tables: empty, one message field, or all three.
MessageBinds ==
    {<<>>}
    \cup {<< <<<<f>>, m>> >> : f \in MessageFields, m \in MessageSamples}
    \cup {<< <<<<JR_constraintMsg>>, a>>, <<<<JR_requiredMsg>>, b>>,
             <<<<JR_noAppErrorString>>, c>> >> :
            a \in {Msg_multi}, b \in {Msg_ref, Msg_plain},
            c \in {Msg_multi, Msg_ref}}

Media_image == << <<<<"i", "m", "a", "g", "e">>, PyStr(<<"a", ".", "p">>)>> >>
Hint_multi == PyDict(<< <<S_en, PyStr(<<"h">>)>>, <<S_fr, PyStr(<<"i">>)>> >>)
HintSamples == {PyStr(EmptyStr), PyStr(<<"h">>), Hint_multi}
GuidanceSamples == {PyStr(EmptyStr), PyStr(<<"g">>), Hint_multi}
TranslatedLabels == {PyStr(EmptyStr), Label_marked, Label_multi}

Translated(label, media, hint, guidance_hint, bind) ==
    [DefaultAttrs EXCEPT !.name = <<"q", "_", "1">>, !.type = S_string,
                         !.label = label, !.media = media, !.hint = hint,
                         !.guidance_hint = guidance_hint, !.bind = bind]

InitTranslations ==
    /\ created = {1, 2}
    /\ parent = [e \in Elems |-> IF e = 2 THEN 1 ELSE None]
    /\ children = [e \in Elems |-> IF e = 1 THEN <<2>> ELSE <<>>]
    /\ \E label \in TranslatedLabels, media \in {<<>>, Media_image},
          hint \in HintSamples, guidance_hint \in GuidanceSamples,
          bind \in MessageBinds :
         attrs = [e \in Elems |->
                    IF e = 1 THEN [DefaultAttrs EXCEPT !.name = NameOf(1),
                                                       !.type = S_survey]
                    ELSE IF e = 2
                    THEN Translated(label, media, hint, guidance_hint, bind)
                    ELSE DefaultAttrs]
    /\ \/ survey = NoSurvey
       \/ survey = [annotated |-> TRUE, annotated_fields |-> <<"type">>]
    /\ qtd = <<>>
    /\ any_repeat_cache = {}
    /\ op = [Pending("get_translations", <<S_default>>) EXCEPT !.self = 2]

NextTranslations ==
    \E e \in created :
        /\ op.error = "pending" /\ op.self = e
        /\ GetTranslations(e, op.arg[1])

SpecTranslations == InitTranslations /\ [][NextTranslations]_vars

----------------------------------------------------------------------------
(* Claims about translations.                                              *)

\* The last call is get_translations and it returned.
TranslationsReturned == op.name = "get_translations" /\ op.error = "none"

IsMessage(r) == "display_element" \notin DOMAIN r
\* The records the call yielded for a bind message field.
MessagesOf(field) ==
    SelectSeq(op.result,
              LAMBDA r : IsMessage(r)
                         /\ r.path = _translation_path(op.self, field))
\* The value the element binds to a message field, None when it binds none.
MessageOf(field) == DictGet(attrs[op.self].bind, <<field>>, PyNone)
HasRef(msg) == msg.t = "str" /\ FindRefs(msg.v) # <<>>

\* One record per language of a mapping, each with the text of its language.
PerLanguage(records, mapping) ==
    /\ Len(records) = Len(mapping.v)
    /\ \A i \in 1..Len(records) :
          /\ records[i].lang = mapping.v[i][1]
          /\ records[i].text = mapping.v[i][2]
\* One record, under default_language, with the scalar as its text.
OneDefault(records, scalar) ==
    /\ Len(records) = 1
    /\ records[1].lang = op.arg[1]
    /\ records[1].text = scalar

\* A message field as the claim has it: mapping, scalar with a reference,
\* or nothing.
MessageAsClaimed(field) ==
    IF MessageOf(field).t = "dict"
    THEN PerLanguage(MessagesOf(field), MessageOf(field))
    ELSE IF HasRef(MessageOf(field))
    THEN OneDefault(MessagesOf(field), MessageOf(field))
    ELSE MessagesOf(field) = <<>>

DisplayOf(display_element) ==
    SelectSeq(op.result,
              LAMBDA r : ~IsMessage(r) /\ r.display_element = display_element)
NonEmpty(value) == Len(value.v) > 0
\* The languages a field gets records for: those of a mapping, or
\* default_language for a scalar that needs a record.
RecordLangs(value, needed) ==
    IF value.t = "dict" THEN [i \in 1..Len(value.v) |-> value.v[i][1]]
    ELSE IF needed THEN <<op.arg[1]>>
    ELSE <<>>
\* The text a field holds for the i-th of those languages.
FieldText(value, i) == IF value.t = "dict" THEN value.v[i][2] ELSE value
\* The text a label record must carry for a language.
LabelRecordText(e, lang, text) ==
    IF survey.annotated
    THEN PyStr(get_annotated_label(e, PyStr(lang)).result)
    ELSE text
\* The records of a display element are one per language in langs, each
\* with the path of the element.
RecordsAre(display_element, langs, value) ==
    /\ Len(DisplayOf(display_element)) = Len(langs)
    /\ \A i \in 1..Len(langs) :
          /\ DisplayOf(display_element)[i].lang = langs[i]
          /\ DisplayOf(display_element)[i].path
                = _translation_path(op.self, display_element)
          /\ DisplayOf(display_element)[i].text
                = IF display_element = "label"
                  THEN LabelRecordText(op.self, langs[i], FieldText(value, i))
                  ELSE FieldText(value, i)

\* C16: label records exist iff the label is a mapping or a non-empty scalar
\* beside non-empty media, guidance_hint records iff guidance_hint is
\* non-empty, hint records iff the hint is a mapping or a non-empty scalar
\* beside a non-empty guidance_hint; a scalar gives one record under
\* default_language, and on an annotated form a label record carries the
\* annotated label of its language.
C16_DisplayRecords ==
    TranslationsReturned =>
        /\ RecordsAre("label",
                      RecordLangs(attrs[op.self].label,
                                  /\ NonEmpty(attrs[op.self].label)
                                  /\ Len(attrs[op.self].media) > 0),
                      attrs[op.self].label)
        /\ RecordsAre("guidance_hint",
                      RecordLangs(attrs[op.self].guidance_hint,
                                  NonEmpty(attrs[op.self].guidance_hint)),
                      attrs[op.self].guidance_hint)
        /\ RecordsAre("hint",
                      RecordLangs(attrs[op.self].hint,
                                  /\ NonEmpty(attrs[op.self].hint)
                                  /\ NonEmpty(attrs[op.self].guidance_hint)),
                      attrs[op.self].hint)

\* An annotated form: a scalar label beside media and a scalar hint beside a
\* guidance hint got one record each, the label's with the annotated text.
C16_Witness ==
    /\ TranslationsReturned /\ survey.annotated
    /\ attrs[op.self].label = Label_marked
    /\ attrs[op.self].media = Media_image
    /\ attrs[op.self].hint = PyStr(<<"h">>)
    /\ attrs[op.self].guidance_hint = PyStr(<<"g">>)
    /\ Len(DisplayOf("label")) = 1
    /\ DisplayOf("label")[1].lang = S_default
    /\ DisplayOf("label")[1].text # Label_marked
    /\ Len(DisplayOf("hint")) = 1
    /\ Len(DisplayOf("guidance_hint")) = 1


----------------------------------------------------------------------------
(* Markup generation: xml_label, xml_hint and xml_label_and_hint.  The     *)
(* element builder and the survey's substitution services live outside     *)
(* this file: a fragment is the record of what the builder was given, a    *)
(* substituted text the record of what the service was asked.              *)

\* node(tag, text, **attributes)
Node(tag, text, attributes) ==
    [tag |-> tag, text |-> text, attributes |-> attributes]

\* survey.insert_output_values(text, context): (text, output_inserted)
insert_output_values(text, context) ==
    [service |-> "insert_output_values", of |-> text, context |-> context]

\* "jr:itext('%s')" % self._translation_path(display_element)
ItextRef(e, display_element) ==
    <<"jr:itext('">> \o _translation_path(e, display_element) \o <<"')">>

\* The rest of xml_label once get_annotated_label has answered.
LabelNode(e, r) ==
    IF r.error # "none" THEN Throws(r.error, PyNone)
    ELSE Gives(Node("label", insert_output_values(r.result, e),
                    << <<<<"toParseString">>, <<"output_inserted">>>> >>), PyNone)

xml_label(e) ==
    IF needs_itext_ref(e)
    THEN Gives(Node("label", None, << <<<<"ref">>, ItextRef(e, "label")>> >>),
               PyNone)
    ELSE LabelNode(e, get_annotated_label(e, PyNone))

xml_hint(e) ==
    IF Attr(e, "hint").t = "dict" \/ Truthy(Attr(e, "guidance_hint"))
    THEN Node("hint", None, << <<<<"ref">>, ItextRef(e, "hint")>> >>)
    ELSE Node("hint", insert_output_values(Attr(e, "hint").v, e),
              << <<<<"toParseString">>, <<"output_inserted">>>> >>)

S_calculate == <<"c", "a", "l", "c", "u", "l", "a", "t", "e">>
S_big_image == <<"b", "i", "g", "-", "i", "m", "a", "g", "e">>

\* "The survey element named '%s' has no label or hint." % self.name
NoLabelOrHint(e) ==
    <<"The survey element named '">> \o Attr(e, "name").v
    \o <<"' has no label or hint.">>

\* The checks of xml_label_and_hint on the list it has built.
CheckedFragments(e, result) ==
    IF Len(result) = 0 /\ ~survey.annotated
    THEN Throws("PyXFormError: no label or hint", NoLabelOrHint(e))
    ELSE IF /\ ~Truthy(Attr(e, "label")) /\ ~Truthy(Attr(e, "media"))
            /\ ~Truthy(Attr(e, "hint"))
            /\ Truthy(Attr(e, "guidance_hint"))
    THEN Throws("PyXFormError: no label or hint", NoLabelOrHint(e))
    ELSE IF /\ ~DictHas(Attr(e, "media").v, S_image)
            /\ DictHas(Attr(e, "media").v, S_big_image)
    THEN Throws("PyXFormError: big-image without image", PyNone)
    ELSE Gives(result, PyNone)

\* The list with the hint fragment ahead of the label fragment.
LabelAndHint_hint_first(e, with_label, with_hint, label) ==
    IF with_label /\ label.error # "none" THEN Throws(label.error, PyNone)
    ELSE CheckedFragments(e, (IF with_hint THEN <<xml_hint(e)>> ELSE <<>>)
                             \o (IF with_label THEN <<label.result>> ELSE <<>>))

\* The list built from the label fragment (asked for when with_label) and
\* the hint fragment (when with_hint), then checked.
LabelAndHint(e, with_label, with_hint, label) ==
    IF with_label /\ label.error # "none" THEN Throws(label.error, PyNone)
    ELSE CheckedFragments(e, (IF with_label THEN <<label.result>> ELSE <<>>)
                             \o (IF with_hint THEN <<xml_hint(e)>> ELSE <<>>))

\* xml_label_and_hint with the guidance hint not asking for a hint.
xml_label_and_hint_hint_only(e) ==
    LabelAndHint(e,
                 \/ Truthy(Attr(e, "label")) \/ Truthy(Attr(e, "media"))
                 \/ survey.annotated /\ Attr(e, "type").v = S_calculate
                 \/ Truthy(Attr(e, "hint")),
                 Truthy(Attr(e, "hint")),
                 xml_label(e))

xml_label_and_hint(e) ==
    LabelAndHint(e,
                 \/ Truthy(Attr(e, "label")) \/ Truthy(Attr(e, "media"))
                 \/ survey.annotated /\ Attr(e, "type").v = S_calculate
                 \/ Truthy(Attr(e, "hint")) \/ Truthy(Attr(e, "guidance_hint")),
                 Truthy(Attr(e, "hint")) \/ Truthy(Attr(e, "guidance_hint")),
                 xml_label(e))

\* The record of a call that returned r.result, or raised r.error with the
\* message r.under.
AnsweredWithMessage(name, e, arg, r) ==
    IF r.error = "none" THEN Returned(name, e, arg, r.result)
    ELSE [Raised(name, e, arg, r.error) EXCEPT !.result = r.under]

XmlLabelAndHint(e) ==
    /\ Terminates(e)
    /\ op' = AnsweredWithMessage("xml_label_and_hint", e, <<>>,
                                 xml_label_and_hint(e))
    /\ UNCHANGED <<created, parent, children, attrs, survey, qtd, any_repeat_cache>>

----------------------------------------------------------------------------
(* Specification of label and hint generation: a question under the root,  *)
(* its label, media, hint, guidance hint, type and bind table drawn from   *)
(* samples.                                                                *)

Media_big_image == << <<S_big_image, PyStr(<<"b", ".", "p">>)>> >>
Presented(label, media, hint, guidance_hint, type, bind) ==
    [DefaultAttrs EXCEPT !.name = <<"q", "_", "1">>, !.type = type,
                         !.label = label, !.media = media, !.hint = hint,
                         !.guidance_hint = guidance_hint, !.bind = bind]

InitLabelHint ==
    /\ created = {1, 2}
    /\ parent = [e \in Elems |-> IF e = 2 THEN 1 ELSE None]
    /\ children = [e \in Elems |-> IF e = 1 THEN <<2>> ELSE <<>>]
    /\ \E label \in {PyStr(EmptyStr), Label_plain, Label_multi},
          media \in {<<>>, Media_image, Media_big_image},
          hint \in HintSamples, guidance_hint \in {PyStr(EmptyStr), PyStr(<<"g">>)},
          type \in {S_string, S_calculate},
          bind \in {<<>>, Bind_custom_invalid} :
         attrs = [e \in Elems |->
                    IF e = 1 THEN [DefaultAttrs EXCEPT !.name = NameOf(1),
                                                       !.type = S_survey]
                    ELSE IF e = 2
                    THEN Presented(label, media, hint, guidance_hint, type, bind)
                    ELSE DefaultAttrs]
    /\ \/ survey = NoSurvey
       \/ \E f \in {"type", "custom"} :
            survey = [annotated |-> TRUE, annotated_fields |-> <<f>>]
    /\ qtd = <<>>
    /\ any_repeat_cache = {}
    /\ op = [Pending("xml_label_and_hint", <<>>) EXCEPT !.self = 2]

NextLabelHint ==
    \E e \in created :
        /\ op.error = "pending" /\ op.self = e
        /\ XmlLabelAndHint(e)

SpecLabelHint == InitLabelHint /\ [][NextLabelHint]_vars

----------------------------------------------------------------------------
(* Claims about xml_label_and_hint.                                        *)

LabelHintCall == op.name = "xml_label_and_hint" /\ op.error # "pending"
\* The call raised the "has no label or hint" error naming the element.
NoLabelOrHintRaised ==
    /\ op.error = "PyXFormError: no label or hint"
    /\ op.result = <<"The survey element named '">> \o attrs[op.self].name
                   \o <<"' has no label or hint.">>
Empty(value) == Len(value) = 0
\* label, media and hint are all empty.
NothingShown(e) ==
    /\ Empty(attrs[e].label.v) /\ Empty(attrs[e].media)
    /\ Empty(attrs[e].hint.v)
\* Case (a): all four empty on a form that is not annotated; case (b): a
\* guidance hint with nothing else.
CaseAllEmpty(e) ==
    NothingShown(e) /\ Empty(attrs[e].guidance_hint.v) /\ ~survey.annotated
CaseGuidanceOnly(e) == NothingShown(e) /\ ~Empty(attrs[e].guidance_hint.v)

\* C17 as stated: the "has no label or hint" error is raised exactly in
\* cases (a) and (b).
C17_ErrorExactlyInBothCases ==
    LabelHintCall =>
        (NoLabelOrHintRaised <=>
            CaseAllEmpty(op.self) \/ CaseGuidanceOnly(op.self))

\* get_annotated_label, which the label fragment of case (b) is built from,
\* raises for this element.
LabelFails(e) == get_annotated_label(e, PyNone).error # "none"

\* C17 amended: the error is raised exactly in case (a), and in case (b)
\* when building the label fragment raises no error of its own; in case (b)
\* with a label fragment that cannot be built that other error is raised.
C17_ErrorUnlessLabelFails ==
    LabelHintCall =>
        /\ NoLabelOrHintRaised <=>
              \/ CaseAllEmpty(op.self)
              \/ CaseGuidanceOnly(op.self) /\ ~LabelFails(op.self)
        /\ CaseGuidanceOnly(op.self) /\ LabelFails(op.self)
              => op.error = get_annotated_label(op.self, PyNone).error

\* The error was raised for a guidance hint alone on an annotated form.
C17_Witness ==
    /\ LabelHintCall /\ NoLabelOrHintRaised
    /\ survey.annotated /\ CaseGuidanceOnly(op.self)


----------------------------------------------------------------------------
(* Bindings: xml_bindings, get_setvalue_node_for_dynamic_default and       *)
(* xml_descendent_bindings.                                                *)

\* del d[k]
DictDel(d, k) == SelectSeq(d, LAMBDA pair : pair[1] # k)

K_calculate == <<"calculate">>
K_relevant == <<"relevant">>
K_required == <<"required">>
S_true == <<"t", "r", "u", "e", "(", ")">>
S_false == <<"f", "a", "l", "s", "e", "(", ")">>
\* string('')
S_empty_string == <<"s", "t", "r", "i", "n", "g", "(", "'", "'", ")">>

TrueWords == {<<"y", "e", "s">>, <<"Y", "e", "s">>, <<"Y", "E", "S">>,
              <<"t", "r", "u", "e">>, <<"T", "r", "u", "e">>,
              <<"T", "R", "U", "E">>}
FalseWords == {<<"n", "o">>, <<"N", "o">>, <<"N", "O">>,
               <<"f", "a", "l", "s", "e">>, <<"F", "a", "l", "s", "e">>,
               <<"F", "A", "L", "S", "E">>}
BINDING_CONVERSIONS(v) == IF v \in TrueWords THEN S_true ELSE S_false
CONVERTIBLE_BIND_ATTRIBUTES ==
    {<<"readonly">>, K_required, K_relevant, <<"constraint">>, K_calculate}

\* survey.insert_xpaths(v, context=self)
insert_xpaths(v, context) ==
    [service |-> "insert_xpaths", of |-> v, context |-> context]

\* "x" in survey.annotated_fields
Annotates(f) ==
    \E i \in 1..Len(survey.annotated_fields) : survey.annotated_fields[i] = f

\* if hashable(v) and v in BINDING_CONVERSIONS and k in CONVERTIBLE_...
Converted(k, v) ==
    IF /\ v.t = "str" /\ v.v \in TrueWords \cup FalseWords
       /\ k \in CONVERTIBLE_BIND_ATTRIBUTES
    THEN PyStr(BINDING_CONVERSIONS(v.v))
    ELSE v

\* The message attributes pointed at their itext entry.
Referenced(e, k, v) ==
    IF k \in {<<JR_constraintMsg>>, <<JR_requiredMsg>>}
       /\ (v.t = "dict" \/ FindRefs(v.v) # <<>>)
    THEN PyStr(ItextRef(e, k[1]))
    ELSE IF k = <<JR_noAppErrorString>> /\ v.t = "dict"
    THEN PyStr(ItextRef(e, k[1]))
    ELSE v

\* for k, v in bind_dict.items(): bind_dict[k] = ...
BindAttributes(e, bind_dict) ==
    [i \in 1..Len(bind_dict) |->
        <<bind_dict[i][1],
          insert_xpaths(Referenced(e, bind_dict[i][1],
                                   Converted(bind_dict[i][1], bind_dict[i][2])),
                        e)>>]

\* if self.trigger and "calculate" in self.bind: del bind_dict["calculate"]
Triggered(e, bind_dict) ==
    IF Truthy(Attr(e, "trigger")) /\ DictHas(Attr(e, "bind").v, K_calculate)
    THEN DictDel(bind_dict, K_calculate)
    ELSE bind_dict

\* The annotated form handling without the calculate replacement.
AnnotatedBind_calculate_kept(e, bind_dict) == bind_dict

\* elif "calculation" in survey.annotated_fields and "calculate" in self.bind
AnnotatedBind(e, bind_dict) ==
    IF /\ survey.annotated /\ Annotates("calculation")
       /\ DictHas(Attr(e, "bind").v, K_calculate)
    THEN DictSet(bind_dict, K_calculate, PyStr(S_empty_string))
    ELSE bind_dict

\* xml_bindings: None, or the list of one bind fragment.
xml_bindings(e) ==
    IF attrs[e].flat THEN PyNone
    ELSE IF ~Truthy(Attr(e, "bind")) THEN PyNone
    ELSE IF /\ survey.annotated /\ Annotates("relevant")
            /\ DictHas(Attr(e, "bind").v, K_relevant)
    THEN PyNone
    ELSE PyList(<<Node("bind", None,
                       << <<<<"nodeset">>, get_xpath(e)>> >>
                       \o BindAttributes(e, AnnotatedBind(e,
                               Triggered(e, Attr(e, "bind").v))))>>)

XmlBindings(e) ==
    /\ Terminates(e)
    /\ op' = Returned("xml_bindings", e, <<>>, xml_bindings(e))
    /\ UNCHANGED <<created, parent, children, attrs, survey, qtd, any_repeat_cache>>

\* default_is_dynamic(default, type): an expression, not a literal.
default_is_dynamic(default, type) ==
    \E i \in 1..Len(default) : default[i] = "("

S_first_load == "odk-instance-first-load"

\* get_setvalue_node_for_dynamic_default(in_repeat=False)
get_setvalue_node_for_dynamic_default(e) ==
    IF \/ ~Truthy(Attr(e, "default"))
       \/ ~default_is_dynamic(Attr(e, "default").v, Attr(e, "type").v)
       \/ /\ default_is_dynamic(Attr(e, "default").v, Attr(e, "type").v)
          /\ survey.annotated /\ Annotates("default")
    THEN PyNone
    ELSE Node("setvalue", None,
              << <<<<"ref">>, get_xpath(e)>>,
                 <<<<"value">>, insert_xpaths(Attr(e, "default"), e)>>,
                 <<<<"event">>, <<S_first_load>>>> >>)

RECURSIVE iter_descendants_to(_, _)
\* yield self, then each child's descendants, down to the given depth.
iter_descendants_to(e, depth) ==
    LET RECURSIVE Each(_)
        Each(kids) == IF kids = <<>> THEN <<>>
                      ELSE iter_descendants_to(Head(kids), depth - 1)
                           \o Each(Tail(kids))
    IN IF depth = 0 THEN <<e>> ELSE <<e>> \o Each(children[e])

iter_descendants(e) == iter_descendants_to(e, MaxElems)

\* [ancestor for ancestor in e.get_lineage() if ancestor.type == "repeat"]
RepeatsIn(lineage) ==
    SelectSeq(lineage, LAMBDA x : Attr(x, "type").v = S_repeat)

\* The repeat test made on every ancestor, flat ones included, and not on
\* the element itself.
InModel_proper_ancestors(e) ==
    \A x \in created :
        (x # e /\ \E i \in 1..Len(ChainUp(e, <<e>>, MaxElems)) :
                      ChainUp(e, <<e>>, MaxElems)[i] = x)
            => Attr(x, "type").v # S_repeat

\* No element of the lineage is a repeat: the setvalue goes in the model.
InModel(e) == Len(RepeatsIn(get_lineage(e))) = 0

\* What one descendant adds to the result.
DescendentFragments(e, bindings, dynamic_default) ==
    (IF bindings.t = "list" THEN bindings.v ELSE <<>>)
    \o (IF InModel(e) /\ "tag" \in DOMAIN dynamic_default
        THEN <<dynamic_default>> ELSE <<>>)

RECURSIVE FragmentsOf(_)
FragmentsOf(es) ==
    IF es = <<>> THEN <<>>
    ELSE DescendentFragments(Head(es), xml_bindings(Head(es)),
                             get_setvalue_node_for_dynamic_default(Head(es)))
         \o FragmentsOf(Tail(es))

xml_descendent_bindings(e) == FragmentsOf(iter_descendants(e))

XmlDescendentBindings(e) ==
    /\ \A x \in created : Terminates(x)
    /\ op' = Returned("xml_descendent_bindings", e, <<>>,
                      xml_descendent_bindings(e))
    /\ UNCHANGED <<created, parent, children, attrs, survey, qtd, any_repeat_cache>>


----------------------------------------------------------------------------
(* Specification of bindings: xml_bindings on a question under the root,   *)
(* and xml_descendent_bindings on a tree of three elements.                *)

Expr_sum == PyStr(<<"1", "+", "1">>)
Expr_ref == PyStr(<<"$", "{", "a", "}", ">", "1">>)
\* Bind tables a caller may give.
BoundSamples ==
    {<<>>,
     << <<K_calculate, Expr_sum>> >>,
     << <<K_relevant, Expr_ref>> >>,
     << <<K_calculate, Expr_sum>>, <<K_relevant, Expr_ref>> >>,
     << <<K_calculate, Expr_sum>>, <<K_required, PyStr(<<"y", "e", "s">>)>> >>,
     << <<K_required, PyStr(<<"n", "o">>)>>,
        <<<<JR_requiredMsg>>, Msg_ref>> >>,
     << <<<<JR_constraintMsg>>, Msg_multi>>,
        <<<<JR_noAppErrorString>>, Msg_ref>> >>}
\* annotated_fields of the forms: one or two of these names.
BindingFieldNames == {"relevant", "calculation", "default", "type"}
BindingFieldLists ==
    {<<f>> : f \in BindingFieldNames}
    \cup {<<f, g>> : f, g \in {"relevant", "calculation"}}
BindingSurveys ==
    {NoSurvey}
    \cup {[annotated |-> TRUE, annotated_fields |-> fs] :
            fs \in BindingFieldLists}

Bound(name, type, flat, bind, trigger, default) ==
    [DefaultAttrs EXCEPT !.name = name, !.type = type, !.flat = flat,
                         !.bind = bind, !.trigger = trigger,
                         !.default = default, !.label = Label_plain]
TheRoot == [DefaultAttrs EXCEPT !.name = NameOf(1), !.type = S_survey]

S_today == <<"t", "o", "d", "a", "y", "(", ")">>

\* A question under the root, about to be asked for its bindings.
InitBindingsOfOne ==
    /\ created = {1, 2}
    /\ parent = [e \in Elems |-> IF e = 2 THEN 1 ELSE None]
    /\ children = [e \in Elems |-> IF e = 1 THEN <<2>> ELSE <<>>]
    /\ \E bind \in BoundSamples, trigger \in {EmptyStr, <<"$", "{", "a", "}">>},
          flat \in BOOLEAN :
         attrs = [e \in Elems |->
                    IF e = 1 THEN TheRoot
                    ELSE IF e = 2
                    THEN Bound(<<"q", "_", "1">>, S_calculate, flat, bind,
                               trigger, EmptyStr)
                    ELSE DefaultAttrs]
    /\ op = [Pending("xml_bindings", <<>>) EXCEPT !.self = 2]

\* A group or repeat and a question, the question under the group or beside
\* it, about to be asked for the bindings of a subtree.
InitBindingsOfTree ==
    /\ created = {1, 2, 3}
    /\ \E under \in {1, 2} :
         /\ parent = [e \in Elems |-> IF e = 2 THEN 1
                                      ELSE IF e = 3 THEN under ELSE None]
         /\ children = [e \in Elems |->
                          IF e = 1 THEN (IF under = 1 THEN <<2, 3>> ELSE <<2>>)
                          ELSE IF e = 2 /\ under = 2 THEN <<3>>
                          ELSE <<>>]
    /\ \E type \in {S_group, S_repeat}, flat \in BOOLEAN,
          outer \in {EmptyStr, S_today}, inner \in {EmptyStr, S_today, <<"5">>},
          bind2 \in {<<>>, << <<K_relevant, Expr_ref>> >>},
          bind3 \in {<<>>, << <<K_calculate, Expr_sum>> >>} :
         attrs = [e \in Elems |->
                    IF e = 1 THEN TheRoot
                    ELSE IF e = 2
                    THEN Bound(<<"g">>, type, flat, bind2, EmptyStr, outer)
                    ELSE IF e = 3
                    THEN Bound(<<"q", "_", "1">>, S_string, FALSE, bind3,
                               EmptyStr, inner)
                    ELSE DefaultAttrs]
    /\ \E e \in {1, 2} :
         op = [Pending("xml_descendent_bindings", <<>>) EXCEPT !.self = e]

InitBindings ==
    /\ InitBindingsOfOne \/ InitBindingsOfTree
    /\ survey \in BindingSurveys
    /\ qtd = <<>>
    /\ any_repeat_cache = {}

NextBindings ==
    \E e \in created :
        /\ op.error = "pending" /\ op.self = e
        /\ \/ op.name = "xml_bindings" /\ XmlBindings(e)
           \/ op.name = "xml_descendent_bindings" /\ XmlDescendentBindings(e)

SpecBindings == InitBindings /\ [][NextBindings]_vars

----------------------------------------------------------------------------
(* Claims about bindings.                                                  *)

BindingsCall == op.name = "xml_bindings" /\ op.error = "none"
\* The call returned a list with a bind fragment.
BindEmitted == BindingsCall /\ op.result.t = "list"
\* The attributes of the bind fragment returned.
BindFragment == op.result.v[1].attributes
HasBound(e, k) == DictHas(attrs[e].bind, k)
\* annotated_fields names f.
Annotated(f) ==
    /\ survey.annotated
    /\ \E i \in 1..Len(survey.annotated_fields) : survey.annotated_fields[i] = f

\* C18: a non-flat element with a trigger and a calculate entry gets no bind
\* fragment with a calculate attribute, on any form.
C18_TriggerDropsCalculate ==
    /\ BindingsCall /\ ~attrs[op.self].flat
    /\ attrs[op.self].trigger # EmptyStr /\ HasBound(op.self, K_calculate)
    => \A i \in 1..Len(op.result.v) :
          ~DictHas(op.result.v[i].attributes, K_calculate)

\* The value an attribute gets for a bound text: the substitution service
\* applied to it.
Substituted(text) == insert_xpaths(text, op.self)

\* C19: on an annotated form a relevant entry with "relevant" annotated
\* gives no fragment at all; otherwise a calculate entry with "calculation"
\* annotated gives calculate = string('') in the fragment; on a form that is
\* not annotated relevant and calculate keep their expressions (calculate
\* unless a trigger drops it).
C19_AnnotatedBindings ==
    BindingsCall =>
        IF Annotated("relevant") /\ HasBound(op.self, K_relevant)
        THEN op.result = PyNone
        ELSE IF attrs[op.self].flat THEN op.result = PyNone
        ELSE IF Annotated("calculation") /\ HasBound(op.self, K_calculate)
        THEN /\ BindEmitted
             /\ DictGet(BindFragment, K_calculate, PyNone)
                   = Substituted(PyStr(S_empty_string))
        ELSE ~survey.annotated /\ attrs[op.self].bind # <<>> =>
             /\ BindEmitted
             /\ HasBound(op.self, K_relevant) =>
                   DictGet(BindFragment, K_relevant, PyNone)
                      = Substituted(DictGet(attrs[op.self].bind, K_relevant,
                                            PyNone))
             /\ HasBound(op.self, K_calculate)
                /\ attrs[op.self].trigger = EmptyStr =>
                   DictGet(BindFragment, K_calculate, PyNone)
                      = Substituted(DictGet(attrs[op.self].bind, K_calculate,
                                            PyNone))
             /\ HasBound(op.self, K_calculate)
                /\ attrs[op.self].trigger # EmptyStr =>
                   ~DictHas(BindFragment, K_calculate)

\* "calculation" and "relevant" annotated, calculate bound and relevant not:
\* the fragment carries calculate = string('').
C19_Witness ==
    /\ BindEmitted
    /\ Annotated("calculation") /\ Annotated("relevant")
    /\ HasBound(op.self, K_calculate) /\ ~HasBound(op.self, K_relevant)
    /\ DictGet(BindFragment, K_calculate, PyNone)
          = Substituted(PyStr(S_empty_string))


DescendentsCall == op.name = "xml_descendent_bindings" /\ op.error = "none"
\* The elements of the subtree asked about, parents before children and
\* children left to right.
VisitOrder ==
    IF op.self = 1 THEN <<1, 2, 3>>
    ELSE IF parent[3] = op.self THEN <<op.self, 3>>
    ELSE <<op.self>>
\* The elements above e, up to the root.
AncestorsOf(e) ==
    {x \in created \ {e} :
        \E i \in 1..Len(ChainUp(e, <<e>>, MaxElems)) :
            ChainUp(e, <<e>>, MaxElems)[i] = x}
IsRepeat(x) == attrs[x].type = S_repeat
\* e.default is non-empty and dynamic, and the form does not annotate
\* "default".
DefaultToSet(e) ==
    /\ attrs[e].default # EmptyStr
    /\ default_is_dynamic(attrs[e].default, attrs[e].type)
    /\ ~Annotated("default")
\* The setvalue fragment of e: ref its xpath, event odk-instance-first-load.
SetvalueOf(e) ==
    Node("setvalue", None,
         << <<<<"ref">>, get_xpath(e)>>,
            <<<<"value">>, insert_xpaths(PyStr(attrs[e].default), e)>>,
            <<<<"event">>, <<"odk-instance-first-load">>>> >>)
\* What the claim has e contribute: its bind fragment, then its setvalue
\* fragment when one is due (with_setvalue).
ContributionOf(e, with_setvalue) ==
    (IF xml_bindings(e).t = "list" THEN xml_bindings(e).v ELSE <<>>)
    \o (IF with_setvalue THEN <<SetvalueOf(e)>> ELSE <<>>)

RECURSIVE ContributionsByAncestors(_)
ContributionsByAncestors(es) ==
    IF es = <<>> THEN <<>>
    ELSE ContributionOf(Head(es),
                        /\ DefaultToSet(Head(es))
                        /\ \A x \in AncestorsOf(Head(es)) : ~IsRepeat(x))
         \o ContributionsByAncestors(Tail(es))

\* C20 as stated: per visited element its bind fragment then its setvalue
\* fragment, the setvalue present iff the default is dynamic, "default" is
\* not annotated and no ancestor is a repeat.
C20_SetvalueUnlessRepeatAncestor ==
    DescendentsCall => op.result = ContributionsByAncestors(VisitOrder)

\* The elements get_lineage keeps: the root, and e and its ancestors when
\* they are not flat.
KeptInLineage(e) ==
    {x \in {e} \cup AncestorsOf(e) : ~attrs[x].flat \/ parent[x] = None}

RECURSIVE ContributionsByLineage(_)
ContributionsByLineage(es) ==
    IF es = <<>> THEN <<>>
    ELSE ContributionOf(Head(es),
                        /\ DefaultToSet(Head(es))
                        /\ \A x \in KeptInLineage(Head(es)) : ~IsRepeat(x))
         \o ContributionsByLineage(Tail(es))

\* C20 amended: the setvalue is present iff the default is dynamic,
\* "default" is not annotated, and no element among e and its ancestors is a
\* repeat that get_lineage keeps (the root, and every element not flat).
C20_SetvalueUnlessRepeatInLineage ==
    DescendentsCall => op.result = ContributionsByLineage(VisitOrder)

\* A question with a dynamic default under a group that has one too and a
\* relevant entry: the group's bind fragment, its setvalue, then the
\* question's bind fragment and setvalue.
C20_Witness ==
    /\ DescendentsCall /\ op.self = 1 /\ parent[3] = 2
    /\ attrs[2].type = S_group /\ ~attrs[2].flat /\ ~survey.annotated
    /\ Len(op.result) = 4
    /\ op.result[1].tag = "bind" /\ op.result[2] = SetvalueOf(2)
    /\ op.result[3].tag = "bind" /\ op.result[4] = SetvalueOf(3)


----------------------------------------------------------------------------
(* Actions: xml_action and xml_actions.                                    *)

K_name == <<"name">>

\* The action fragment without the element's own entries.
xml_action_ref_only(e) ==
    IF Truthy(Attr(e, "action"))
    THEN Node(DictGet(Attr(e, "action").v, K_name, PyNone).v, None,
              << <<<<"ref">>, get_xpath(e)>> >>)
    ELSE PyNone

\* xml_action: action_dict = self.action.copy(); the fragment is named by
\* action_dict["name"] and carries ref and the entries left after
\* del action_dict["name"].  None when the action is empty.
xml_action(e) ==
    IF Truthy(Attr(e, "action"))
    THEN Node(DictGet(Attr(e, "action").v, K_name, PyNone).v, None,
              << <<<<"ref">>, get_xpath(e)>> >>
              \o DictDel(Attr(e, "action").v, K_name))
    ELSE PyNone

RECURSIVE ActionsOf(_)
\* for e in self.iter_descendants(): append e.xml_action() unless None
ActionsOf(es) ==
    IF es = <<>> THEN <<>>
    ELSE (IF "tag" \in DOMAIN xml_action(Head(es))
          THEN <<xml_action(Head(es))>> ELSE <<>>)
         \o ActionsOf(Tail(es))

xml_actions(e) == ActionsOf(iter_descendants(e))

\* A call keeps in pre what the elements held when it was made.
XmlAction(e) ==
    /\ Terminates(e)
    /\ op' = [Returned("xml_action", e, <<>>, xml_action(e))
              EXCEPT !.pre = attrs]
    /\ UNCHANGED <<created, parent, children, attrs, survey, qtd, any_repeat_cache>>

XmlActions(e) ==
    /\ \A x \in created : Terminates(x)
    /\ op' = [Returned("xml_actions", e, <<>>, xml_actions(e))
              EXCEPT !.pre = attrs]
    /\ UNCHANGED <<created, parent, children, attrs, survey, qtd, any_repeat_cache>>

----------------------------------------------------------------------------
(* Specification of actions: a tree of three elements, each with or        *)
(* without an action.                                                      *)

S_setvalue == <<"s", "e", "t", "v", "a", "l", "u", "e">>
Action_setvalue ==
    PyDict(<< <<K_name, PyStr(S_setvalue)>>,
              <<<<"event">>, PyStr(<<"x", "-", "c">>)>>,
              <<<<"value">>, PyStr(<<"1">>)>> >>)
Action_bare == PyDict(<< <<K_name, PyStr(<<"o", "d", "k">>)>> >>)
ActionSamples == {PyStr(EmptyStr), PyDict(<<>>), Action_setvalue, Action_bare}

Acting(name, flat, action) ==
    [DefaultAttrs EXCEPT !.name = name, !.type = S_group, !.flat = flat,
                         !.action = action]

InitActions ==
    /\ created = {1, 2, 3}
    /\ \E under \in {1, 2} :
         /\ parent = [e \in Elems |-> IF e = 2 THEN 1
                                      ELSE IF e = 3 THEN under ELSE None]
         /\ children = [e \in Elems |->
                          IF e = 1 THEN (IF under = 1 THEN <<3, 2>> ELSE <<2>>)
                          ELSE IF e = 2 /\ under = 2 THEN <<3>>
                          ELSE <<>>]
    /\ \E a1 \in {PyStr(EmptyStr), Action_bare}, a2, a3 \in ActionSamples,
          flat \in BOOLEAN :
         attrs = [e \in Elems |->
                    IF e = 1 THEN [TheRoot EXCEPT !.action = a1]
                    ELSE IF e = 2 THEN Acting(<<"g">>, flat, a2)
                    ELSE IF e = 3 THEN Acting(<<"q", "_", "1">>, FALSE, a3)
                    ELSE DefaultAttrs]
    /\ survey = NoSurvey
    /\ qtd = <<>>
    /\ any_repeat_cache = {}
    /\ op = NoOp

\* Callers ask for the actions of any subtree, time and again.
NextActions == \E e \in created : XmlActions(e)

SpecActions == InitActions /\ [][NextActions]_vars

----------------------------------------------------------------------------
(* Claims about actions.                                                   *)

ActionsCall == op.name = "xml_actions" /\ op.error = "none"
\* The elements of the subtree of e, parents before children and children
\* left to right, for the trees of three elements.
SubtreeOf(e) ==
    IF e = 1 THEN (IF parent[3] = 1 THEN <<1, 3, 2>> ELSE <<1, 2, 3>>)
    ELSE IF parent[3] = e THEN <<e, 3>>
    ELSE <<e>>
HasAction(e) == attrs[e].action.t = "dict" /\ attrs[e].action.v # <<>>
\* The elements of the subtree that have an action, in that order.
Actors == SelectSeq(SubtreeOf(op.self), HasAction)
\* The entries of an action besides its name, in the action's order.
OtherEntries(action) == SelectSeq(action, LAMBDA pair : pair[1] # K_name)

----------------------------------------------------------------------------
(* Validation and snapshots: validate, _delete_keys_from_dict,             *)
(* to_json_dict and __eq__.                                                *)

TagStartChars == Letters \cup {":", "_"}
TagChars == Letters \cup Digits \cup {":", "_", "-", "."}

\* is_valid_xml_tag(name): a start character, then tag characters.
is_valid_xml_tag(name) ==
    /\ name # EmptyStr
    /\ name[1] \in TagStartChars
    /\ \A i \in 2..Len(name) : name[i] \in TagChars

\* The positions of name held by a character the grammar does not allow
\* there.
InvalidAt(name) ==
    {i \in 1..Len(name) :
        name[i] \notin (IF i = 1 THEN TagStartChars ELSE TagChars)}

\* re.search(INVALID_XFORM_TAG_REGEXP, name): the first offending
\* character, None when the name holds none.
invalid_char(name) ==
    IF InvalidAt(name) = {} THEN PyNone
    ELSE PyStr(<<name[CHOOSE i \in InvalidAt(name) :
                        \A j \in InvalidAt(name) : i <= j]>>)

\* validate: invalid_char.group(0) raises AttributeError when the search
\* returned None.
validate(e) ==
    IF is_valid_xml_tag(Attr(e, "name").v) THEN Gives(PyNone, PyNone)
    ELSE IF invalid_char(Attr(e, "name").v) = PyNone
    THEN Throws("AttributeError", PyNone)
    ELSE Throws("PyXFormError: invalid character",
                invalid_char(Attr(e, "name").v))

Validate(e) ==
    /\ op' = [AnsweredWithMessage("validate", e, <<>>, validate(e))
              EXCEPT !.pre = attrs]
    /\ UNCHANGED <<created, parent, children, attrs, survey, qtd, any_repeat_cache>>

\* to_delete = ["parent", "question_type_dictionary", "_created"]
to_delete == {<<"parent">>, <<"question_type_dictionary">>, <<"_created">>}

RECURSIVE _delete_keys_from_dict(_)
\* for value in dictionary.values(): the deletion goes on in every dict.
DeleteInValues(d) ==
    [i \in 1..Len(d) |->
        <<d[i][1], IF d[i][2].t = "dict"
                   THEN PyDict(_delete_keys_from_dict(d[i][2].v))
                   ELSE d[i][2]>>]

\* The dict after the keys are deleted from it and from every dict among
\* its values.
_delete_keys_from_dict(d) ==
    DeleteInValues(SelectSeq(d, LAMBDA pair : pair[1] \notin to_delete))

\* result = self.copy() shares the dicts among the element's values with the
\* element, so the deletion reaches what the element holds.
Stripped(a) ==
    [k \in DOMAIN a |->
        IF k \in DictEntries THEN _delete_keys_from_dict(a[k])
        ELSE IF k \in TypedEntries /\ a[k].t = "dict"
        THEN PyDict(_delete_keys_from_dict(a[k].v))
        ELSE a[k]]

RECURSIVE Compared(_)
\* A value as == sees it: the entries of a dict in no order.
Compared(v) ==
    IF v.t = "dict"
    THEN [t |-> "dict",
          v |-> {<<v.v[i][1], Compared(v.v[i][2])>> : i \in 1..Len(v.v)}]
    ELSE v

\* The keys of the result with none deleted.
KeptKeys_unpruned(a) == DOMAIN a

\* The keys of the result left by "if not v: del result[k]", children
\* apart.
KeptKeys(a) == {k \in DOMAIN a : Truthy(RawGet(a, k))}

RECURSIVE to_json_dict_of(_, _)
\* The dict to_json_dict returns for an element whose subtree validates:
\* the entries with a truthy value, and the children converted in order.
to_json_dict_of(e, depth) ==
    {<<k, Compared(RawGet(Stripped(attrs[e]), k))>> :
        k \in KeptKeys(Stripped(attrs[e]))}
    \cup (IF children[e] = <<>> \/ depth = 0 THEN {}
          ELSE {<<"children",
                  [i \in 1..Len(children[e]) |->
                      to_json_dict_of(children[e][i], depth - 1)]>>})

\* The elements to_json_dict gets to before one fails to validate.
RECURSIVE ValidPrefix(_)
ValidPrefix(es) ==
    IF es = <<>> \/ validate(Head(es)).error # "none" THEN <<>>
    ELSE <<Head(es)>> \o ValidPrefix(Tail(es))

\* to_json_dict: self.validate() first, children in order after the
\* deletion, so the first element of the preorder that does not validate
\* raises.
to_json_dict(e) ==
    IF Len(ValidPrefix(iter_descendants(e))) < Len(iter_descendants(e))
    THEN validate(iter_descendants(e)[Len(ValidPrefix(iter_descendants(e))) + 1])
    ELSE Gives(to_json_dict_of(e, MaxElems), PyNone)

\* What the elements hold after to_json_dict ran on those of es.
AfterSnapshot(held, es) ==
    [x \in DOMAIN held |->
        IF \E i \in 1..Len(es) : es[i] = x THEN Stripped(held[x])
        ELSE held[x]]

ToJsonDict(e) ==
    /\ \A x \in created : Terminates(x)
    /\ op' = [AnsweredWithMessage("to_json_dict", e, <<>>, to_json_dict(e))
              EXCEPT !.pre = attrs]
    /\ attrs' = AfterSnapshot(attrs, ValidPrefix(iter_descendants(e)))
    /\ UNCHANGED <<created, parent, children, survey, qtd, any_repeat_cache>>

\* self.to_json_dict() == y.to_json_dict(), for y an element.
__eq__(x, y) ==
    IF to_json_dict(x).error # "none" THEN to_json_dict(x)
    ELSE IF to_json_dict(y).error # "none" THEN to_json_dict(y)
    ELSE Gives(PyBool(to_json_dict(x).result = to_json_dict(y).result),
               PyNone)

Eq(x, y) ==
    /\ \A z \in created : Terminates(z)
    /\ op' = [AnsweredWithMessage("__eq__", x, <<y>>, __eq__(x, y))
              EXCEPT !.pre = attrs]
    /\ attrs' = IF to_json_dict(x).error # "none"
                THEN AfterSnapshot(attrs, ValidPrefix(iter_descendants(x)))
                ELSE AfterSnapshot(
                         AfterSnapshot(attrs, iter_descendants(x)),
                         ValidPrefix(iter_descendants(y)))
    /\ UNCHANGED <<created, parent, children, survey, qtd, any_repeat_cache>>


----------------------------------------------------------------------------
(* Specification of validation and snapshots: three elements, apart or in  *)
(* a tree, with valid and invalid names and bind tables that hold a        *)
(* "parent" key or an empty value.                                         *)

K_parent == <<"parent">>
Bind_parent == << <<K_parent, PyStr(<<"x">>)>> >>
Bind_empty_value == << <<K_required, PyStr(EmptyStr)>> >>
SnapshotBinds == {<<>>, Bind_parent, Bind_empty_value}
Name_a == <<"a">>
Name_spaced == <<"a", "1", " ", "b">>

Named(name, bind) == [DefaultAttrs EXCEPT !.name = name, !.bind = bind]

\* The parent of each element: all apart, 2 under 1, or a chain.
SnapshotTrees ==
    {<<None, None, None>>, <<None, 1, None>>, <<None, 1, 2>>}

InitSnapshot ==
    /\ created = {1, 2, 3}
    /\ \E tree \in SnapshotTrees :
         /\ parent = [e \in Elems |-> IF e <= 3 THEN tree[e] ELSE None]
         /\ children = [e \in Elems |->
                          IF e <= 2 /\ tree[e + 1] = e THEN <<e + 1>>
                          ELSE <<>>]
    /\ \E name2 \in {Name_a, <<"b">>, EmptyStr},
          name3 \in {Name_a, Name_spaced, <<"1">>},
          bind2, bind3 \in SnapshotBinds :
         attrs = [e \in Elems |->
                    IF e = 1 THEN Named(Name_a, <<>>)
                    ELSE IF e = 2 THEN Named(name2, bind2)
                    ELSE IF e = 3 THEN Named(name3, bind3)
                    ELSE DefaultAttrs]
    /\ survey = NoSurvey
    /\ qtd = <<>>
    /\ any_repeat_cache = {}
    /\ op = NoOp

NextSnapshot ==
    \/ \E x \in created : Validate(x)
    \/ \E x \in created : ToJsonDict(x)
    \/ \E x, y \in created : Eq(x, y)

SpecSnapshot == InitSnapshot /\ [][NextSnapshot]_vars

----------------------------------------------------------------------------
(* Claims about validation and snapshots.                                  *)

\* Every element of the subtree of e has a valid name.
SubtreeValid(e) ==
    \A i \in 1..Len(iter_descendants(e)) :
        is_valid_xml_tag(attrs[iter_descendants(e)[i]].name)
\* x == y returned a boolean: which one.
EqualTo(x, y) == __eq__(x, y).result = PyBool(TRUE)
Decided(x, y) == __eq__(x, y).error = "none"

\* Equality is reflexive, symmetric and transitive over the elements of S
\* and returns a boolean for every pair of them.
EquivalenceOver(S) ==
    /\ \A x, y \in S : Decided(x, y)
    /\ \A x \in S : EqualTo(x, x)
    /\ \A x, y \in S : EqualTo(x, y) => EqualTo(y, x)
    /\ \A x, y, z \in S : EqualTo(x, y) /\ EqualTo(y, z) => EqualTo(x, z)

\* C22 as stated: equality returns a boolean for every pair of elements and
\* is an equivalence over all of them.
C22_EquivalenceOverAll == EquivalenceOver(created)

\* The entries of a snapshot other than the children.
OwnEntries(snapshot) == {pair \in snapshot : pair[1] # "children"}
TruthyCompared(v) == IF v.t = "dict" THEN v.v # {} ELSE Truthy(v)
\* A snapshot has no parent key and no falsy value among its own entries,
\* has an entry for every field that is truthy once the internal keys are
\* out of it, and holds the children's snapshots in order.
WellFormed(e) ==
    /\ \A pair \in to_json_dict(e).result :
          /\ pair[1] # "parent"
          /\ pair[1] # "children" => TruthyCompared(pair[2])
    /\ \A k \in DOMAIN attrs[e] :
          Truthy(RawGet(Stripped(attrs[e]), k))
             => \E pair \in to_json_dict(e).result : pair[1] = k
    /\ children[e] # <<>> =>
          <<"children", [i \in 1..Len(children[e]) |->
                            to_json_dict(children[e][i]).result]>>
             \in to_json_dict(e).result

\* C22 amended: over the elements whose subtree holds only valid names,
\* two elements compare equal iff their snapshots are equal, a snapshot
\* being as above, equality does not depend on the parent, and it is an
\* equivalence that returns a boolean; a comparison that involves an
\* element with an invalid name in its subtree raises instead.
C22_EquivalenceOverValid ==
    /\ EquivalenceOver({x \in created : SubtreeValid(x)})
    /\ \A x, y \in created :
          IF SubtreeValid(x) /\ SubtreeValid(y)
          THEN /\ WellFormed(x)
               /\ EqualTo(x, y)
                     <=> to_json_dict(x).result = to_json_dict(y).result
          ELSE ~Decided(x, y)

\* Two elements named alike, one under a parent and one apart, compared
\* equal; the snapshot of one keeps the empty value inside its bind table.
C22_Witness ==
    /\ op.name = "__eq__" /\ op.self = 2 /\ op.arg = <<3>>
    /\ op.result = PyBool(TRUE)
    /\ parent[2] = 1 /\ parent[3] = None
    /\ attrs[2].bind = Bind_empty_value
    /\ <<"bind", Compared(PyDict(Bind_empty_value))>>
          \in to_json_dict(2).result

ValidateCall == op.name = "validate" /\ op.error # "pending"
\* The call raised the InvalidName error reporting a character of the name.
InvalidNameRaised(name) ==
    /\ op.error = "PyXFormError: invalid character"
    /\ op.result.t = "str"
    /\ \E i \in 1..Len(name) : op.result.v = <<name[i]>>

\* C23: validate raises the InvalidName error for every invalid name, the
\* empty name included, and returns without changing the element for a
\* valid one; to_json_dict raises it when a name in the subtree is invalid.
C23_InvalidNamesRejected ==
    /\ ValidateCall =>
          /\ op.pre = attrs
          /\ IF is_valid_xml_tag(attrs[op.self].name)
             THEN op.error = "none"
             ELSE InvalidNameRaised(attrs[op.self].name)
    /\ op.name = "to_json_dict" /\ ~SubtreeValid(op.self) =>
          op.error = "PyXFormError: invalid character"

----------------------------------------------------------------------------
(* Custom annotations: a survey and one question under it whose bind table *)
(* holds up to two custom annotation keys, on a plain form and on forms    *)
(* that annotate "custom".                                                 *)

S_de == <<"d", "e">>

\* What may follow the prefix in a bind key.
SuffixSamples ==
    {EmptyStr, <<"a">>, <<"a", "_">>, <<"b", "_", "c">>, <<"-", "a">>,
     <<"a", "!">>, <<"a", "\n">>}

CustomEntry(suffix, value) ==
    <<<<OC_CUSTOM_ANNOTATION_PREFIX>> \o suffix, PyStr(value)>>

\* Bind tables with no, one or two custom annotation keys, a calculate
\* entry after the first.
CustomBinds ==
    {<<>>}
    \cup {<<CustomEntry(s, v), <<<<"calculate">>, PyStr(<<"1">>)>>>> :
            s \in SuffixSamples, v \in {<<"x">>, EmptyStr}}
    \cup {<<CustomEntry(st[1], v), <<<<"calculate">>, PyStr(<<"1">>)>>,
            CustomEntry(st[2], w)>> :
            st \in {p \in SuffixSamples \X SuffixSamples : p[1] # p[2]},
            v \in {<<"x">>, EmptyStr}, w \in {<<"y">>, EmptyStr}}

CustomFieldLists == {<<"custom">>, <<"name", "custom">>, <<"custom", "name">>}

CustomLanguages == {PyNone, PyStr(S_en), PyStr(S_de)}

InitCustom ==
    /\ created = {1, 2}
    /\ parent = [e \in Elems |-> IF e = 2 THEN 1 ELSE None]
    /\ children = [e \in Elems |-> IF e = 1 THEN <<2>> ELSE <<>>]
    /\ \E label \in {Label_plain, Label_multi}, bind \in CustomBinds :
         attrs = [e \in Elems |->
                    IF e = 1 THEN [DefaultAttrs EXCEPT !.name = NameOf(1),
                                                       !.type = S_survey]
                    ELSE IF e = 2
                    THEN Question(<<"n", "_", "1">>,
                                  <<S_string, EmptyStr, EmptyStr>>, label, bind)
                    ELSE DefaultAttrs]
    /\ \/ survey = NoSurvey
       \/ \E fs \in CustomFieldLists :
            survey = [annotated |-> TRUE, annotated_fields |-> fs]
    /\ qtd = <<>>
    /\ any_repeat_cache = {}
    /\ \E e \in {1, 2}, lang \in CustomLanguages :
         op = [Pending("get_annotated_label", <<lang>>) EXCEPT !.self = e]

\* The caller makes the call it set out to make.
NextCustom ==
    \E e \in created, lang \in CustomLanguages :
        /\ op.error = "pending" /\ op.self = e /\ op.arg = <<lang>>
        /\ GetAnnotatedLabel(e, lang)

SpecCustom == InitCustom /\ [][NextCustom]_vars

----------------------------------------------------------------------------
(* Claims about custom annotations.                                        *)

\* The last call is get_annotated_label on a form that is not annotated.
PlainCall ==
    op.name = "get_annotated_label" /\ op.error # "pending" /\ ~survey.annotated

\* The bind entries of e whose key starts with "oc:oc_annotation_".
CustomKeysOf(e) ==
    SelectSeq(attrs[e].bind, LAMBDA kv : kv[1][1] = OC_CUSTOM_ANNOTATION_PREFIX)
\* What follows the prefix in the keys of e.
SuffixesOf(e) ==
    {Tail(CustomKeysOf(e)[i][1]) : i \in 1..Len(CustomKeysOf(e))}

LabelChars == Letters \cup Digits \cup {"_", "-"}
OutsideLabelChars(s) == \E i \in 1..Len(s) : s[i] \notin LabelChars
\* s without its final line break, when characters precede it.
WithoutFinalBreak(s) ==
    IF Len(s) > 1 /\ s[Len(s)] = "\n" THEN SubSeq(s, 1, Len(s) - 1) ELSE s

CustomAnnotationErrors ==
    {"PyXFormError: only letters, digits, underscores, hyphens",
     "PyXFormError: must start with a letter or digit"}

\* A call on a plain form fails, with the custom annotation error, exactly
\* when some suffix is rejected, and else returns the one text of the label
\* or its text for the requested language.
PlainLabelUnless(Rejected(_)) ==
    PlainCall =>
        /\ (op.error # "none") <=> (\E s \in SuffixesOf(op.self) : Rejected(s))
        /\ op.error # "none" => op.error \in CustomAnnotationErrors
        /\ op.error = "none" =>
              LET label == attrs[op.self].label IN
              /\ label.t = "str" => op.result = label.v
              /\ (label.t = "dict" /\ op.arg[1].t = "str"
                                   /\ DictHas(label.v, op.arg[1].v)) =>
                     op.result = DictGet(label.v, op.arg[1].v, PyNone).v

AnnotatingKeys(e) ==
    SelectSeq(CustomKeysOf(e),
              LAMBDA kv : Tail(kv[1]) # EmptyStr /\ NotEmptyStr(kv[2]))

RECURSIVE SegmentPerKey(_)
\* One annotation per entry, labelled by the suffix with its underscores
\* replaced by spaces.
SegmentPerKey(entries) ==
    IF entries = <<>> THEN <<>>
    ELSE Segment("custom", <<StrReplace(Tail(Head(entries)[1]), <<"_">>, <<" ">>),
                             Head(entries)[2]>>)
         \o SegmentPerKey(Tail(entries))

RECURSIVE SegmentsWithCustom(_, _, _)
\* The annotations of the entries of fields, "custom" giving one per key.
SegmentsWithCustom(e, lang, fields) ==
    IF fields = <<>> THEN <<>>
    ELSE (IF Head(fields) = "custom" THEN SegmentPerKey(AnnotatingKeys(e))
          ELSE SegmentsOf(e, lang, <<Head(fields)>>, FALSE))
         \o SegmentsWithCustom(e, lang, Tail(fields))

\* C28: when "custom" is among annotated_fields of an annotated form, the
\* composed label of a non-choice element has exactly one annotation for
\* every bind key that starts with "oc:oc_annotation_" and has a non-empty
\* suffix and a non-empty value, labelled by the suffix with underscores
\* replaced by spaces, in bind-key order, and no custom annotation when the
\* element has no such key.  (The inserted newlines are left out of the
\* comparison.)
C28_OneAnnotationPerKey ==
    (/\ NonChoiceCall /\ op.error = "none"
     /\ \E i \in 1..Len(survey.annotated_fields) :
           survey.annotated_fields[i] = "custom") =>
        WithoutNewlines(op.result) =
            WithoutNewlines(EscapedLabel(op.self, op.arg[1])
                            \o SegmentsWithCustom(op.self, op.arg[1],
                                                  survey.annotated_fields))

\* The tags of the fragments a call of xml_label_and_hint returned.
TagsReturned == [i \in 1..Len(op.result) |-> op.result[i].tag]

\* C29: whenever xml_label_and_hint returns, its result is [], [label] or
\* [label, hint]: at most one label fragment, at most one hint fragment, a
\* hint fragment right after a label fragment; and a label fragment is
\* there iff label or media is non-empty, or the form is annotated and the
\* type is "calculate", or hint or guidance_hint is non-empty.
C29_LabelThenHint ==
    (LabelHintCall /\ op.error = "none") =>
        /\ TagsReturned \in {<<>>, <<"label">>, <<"label", "hint">>}
        /\ (\E i \in 1..Len(op.result) : op.result[i].tag = "label") <=>
              \/ ~Empty(attrs[op.self].label.v)
              \/ ~Empty(attrs[op.self].media)
              \/ survey.annotated /\ attrs[op.self].type = S_calculate
              \/ ~Empty(attrs[op.self].hint.v)
              \/ ~Empty(attrs[op.self].guidance_hint.v)

\* A hint alone is given a label fragment ahead of it.
C29_Witness ==
    /\ LabelHintCall /\ op.error = "none"
    /\ Empty(attrs[op.self].label.v) /\ Empty(attrs[op.self].media)
    /\ ~Empty(attrs[op.self].hint.v)
    /\ TagsReturned = <<"label", "hint">>

----------------------------------------------------------------------------
(* any_repeat and its lru_cache: the table is keyed by (self,              *)
(* parent_xpath), self hashing as its identity, and is never emptied.      *)

\* The most entries the table is let to hold.
MaxCached == 2

\* The body of any_repeat: a descendant, self included, at parent_xpath that
\* is a repeat.
any_repeat_wrapped(e, parent_xpath) ==
    \E i \in 1..Len(iter_descendants(e)) :
        /\ get_xpath(iter_descendants(e)[i]) = parent_xpath
        /\ Attr(iter_descendants(e)[i], "type").v = S_repeat

\* The entries of the table under the key (e, parent_xpath).
cache_hits(e, parent_xpath) ==
    {c \in any_repeat_cache : c[1] = e /\ c[2] = parent_xpath}

\* any_repeat computed anew at every call.
any_repeat_uncached(e, parent_xpath) == any_repeat_wrapped(e, parent_xpath)

\* @lru_cache(maxsize=None) def any_repeat(self, parent_xpath)
any_repeat(e, parent_xpath) ==
    IF cache_hits(e, parent_xpath) # {}
    THEN (CHOOSE c \in cache_hits(e, parent_xpath) : TRUE)[3]
    ELSE any_repeat_wrapped(e, parent_xpath)

AnyRepeat(e, parent_xpath) ==
    /\ \A x \in created : Terminates(x)
    /\ cache_hits(e, parent_xpath) = {} => Cardinality(any_repeat_cache) < MaxCached
    /\ any_repeat_cache' =
         any_repeat_cache \cup {<<e, parent_xpath, any_repeat(e, parent_xpath)>>}
    /\ op' = Returned("any_repeat", e, <<parent_xpath>>,
                      PyBool(any_repeat(e, parent_xpath)))
    /\ UNCHANGED <<created, parent, children, attrs, survey, qtd>>

\* self[key] = value, for the type of an element.
SetType(e, value) ==
    /\ attrs' = [attrs EXCEPT ![e].type = value]
    /\ op' = Returned("__setattr__", e, <<"type", value>>, <<>>)
    /\ UNCHANGED <<created, parent, children, survey, qtd, any_repeat_cache>>

\* A survey with a group or repeat under it and a third element, a group or
\* repeat too, not attached yet.
InitRepeat ==
    /\ created = {1, 2, 3}
    /\ parent = [e \in Elems |-> IF e = 2 THEN 1 ELSE None]
    /\ children = [e \in Elems |-> IF e = 1 THEN <<2>> ELSE <<>>]
    /\ \E t2, t3 \in {S_group, S_repeat} :
         attrs = [e \in Elems |->
                    [DefaultAttrs EXCEPT
                       !.name = NameOf(e),
                       !.type = CASE e = 1 -> S_survey [] e = 2 -> t2
                                  [] e = 3 -> t3 [] OTHER -> EmptyStr]]
    /\ survey = NoSurvey
    /\ qtd = <<>>
    /\ any_repeat_cache = {}
    /\ op = NoOp

\* The places the caller asks about: "/d/g_1", "/d/q" and "/d/g_1/q".
RepeatPaths ==
    {<<"/">> \o NameOf(1) \o <<"/">> \o NameOf(2),
     <<"/">> \o NameOf(1) \o <<"/">> \o NameOf(3),
     <<"/">> \o NameOf(1) \o <<"/">> \o NameOf(2) \o <<"/">> \o NameOf(3)}

\* The caller asks the survey or the element under it about a place,
\* attaches the third element, or changes a type.
NextRepeat ==
    \/ \E e \in {1, 2}, p \in RepeatPaths : AnyRepeat(e, p)
    \/ \E p \in {1, 2} : AddChild(p, 3)
    \/ \E e \in {2, 3}, t \in {S_group, S_repeat} : SetType(e, t)

SpecRepeat == InitRepeat /\ [][NextRepeat]_vars

----------------------------------------------------------------------------
(* Claims about any_repeat.                                                *)

\* The key (e, p) was asked before: the value of its first call.
FirstCalls(e, p) == {c[3] : c \in {d \in any_repeat_cache : d[1] = e /\ d[2] = p}}

RECURSIVE Under(_, _)
\* The elements reached from e through the children lists, e included.
Under(e, depth) ==
    IF depth = 0 THEN {e}
    ELSE {e} \cup UNION {Under(children[e][i], depth - 1) :
                           i \in 1..Len(children[e])}

\* What a computation on the tree as it is gives: some element of the
\* subtree of e, e included, is at p and is a repeat.
Fresh(e, p) ==
    \E x \in Under(e, MaxElems) :
        /\ Slashed(ExpectedLineage(x)) = p
        /\ attrs[x].type = S_repeat

\* C25: the first call any_repeat(e, p) returns true iff some node among
\* the preorder descendants of e, e included, has get_xpath() equal to p and
\* type "repeat"; every later call with the same element and the same p
\* returns the value of that first call, whatever add_child or attribute
\* change was made in between, and so equals a fresh computation as long as
\* the tree is not changed after the first call.
C25_FirstValueKept ==
    [][/\ op'.name = "any_repeat" =>
             LET e == op'.self
                 p == op'.arg[1]
             IN /\ FirstCalls(e, p) = {} => op'.result = PyBool(Fresh(e, p))
                /\ \A first \in FirstCalls(e, p) : op'.result = PyBool(first)
       /\ \A e \in created, p \in RepeatPaths :
             /\ FirstCalls(e, p) # {} => FirstCalls(e, p)' = FirstCalls(e, p)
             /\ (FirstCalls(e, p) = {} /\ FirstCalls(e, p)' # {}) =>
                    /\ op'.name = "any_repeat" /\ op'.self = e /\ op'.arg = <<p>>
                    /\ \A first \in FirstCalls(e, p)' :
                          op'.result = PyBool(first)
      ]_vars

\* A later call returns the first value although the tree has changed.
C25_Witness ==
    /\ op.name = "any_repeat" /\ op.self = 1
    /\ op.arg = <<<<"/", "d", "/", "q">>>>
    /\ op.result = PyBool(FALSE)
    /\ Fresh(1, op.arg[1])
    /\ parent[3] = 1 /\ attrs[3].type = S_repeat

----------------------------------------------------------------------------
(* Generation and snapshots: a survey and a question under it, the         *)
(* question with or without an action, a label per language and a bind     *)
(* entry named "parent", and a caller that runs the operations that        *)
(* generate fragments, translations, labels and snapshots, in any order.   *)

ReadBinds == {<<>>, Bind_relevant, Bind_parent}

InitReadOnly ==
    /\ created = {1, 2}
    /\ parent = [e \in Elems |-> IF e = 2 THEN 1 ELSE None]
    /\ children = [e \in Elems |-> IF e = 1 THEN <<2>> ELSE <<>>]
    /\ \E label \in {Label_plain, Label_multi}, bind \in ReadBinds,
          action \in {PyStr(EmptyStr), Action_setvalue} :
         attrs = [e \in Elems |->
                    IF e = 1 THEN [DefaultAttrs EXCEPT !.name = NameOf(1),
                                                       !.type = S_survey]
                    ELSE IF e = 2
                    THEN [Question(<<"q">>, <<S_string, EmptyStr, EmptyStr>>,
                                   label, bind)
                          EXCEPT !.action = action]
                    ELSE DefaultAttrs]
    /\ \/ survey = NoSurvey
       \/ survey = [annotated |-> TRUE, annotated_fields |-> <<"name">>]
    /\ qtd = <<>>
    /\ any_repeat_cache = {}
    /\ op = NoOp

NextReadOnly ==
    \/ \E e \in created : ToJsonDict(e)
    \/ \E e, y \in created : Eq(e, y)
    \/ \E e \in created : GetTranslations(e, S_default)
    \/ \E e \in created, lang \in Languages : GetAnnotatedLabel(e, lang)
    \/ \E e \in created : XmlLabelAndHint(e)
    \/ \E e \in created : XmlBindings(e)
    \/ \E e \in created : XmlDescendentBindings(e)
    \/ \E e \in created : XmlAction(e)
    \/ \E e \in created : XmlActions(e)

SpecReadOnly == InitReadOnly /\ [][NextReadOnly]_vars

\* C26: the operations that generate and snapshot only read the tree: after
\* any sequence of to_json_dict, __eq__, get_translations,
\* get_annotated_label, xml_label_and_hint, xml_bindings,
\* xml_descendent_bindings, xml_action and xml_actions, the stored fields of
\* every element (the nested bind, control, instance, media and action
\* mappings included), its parent link and its children list are as they
\* were before.
C26_GenerationReadsOnly ==
    [][attrs' = attrs /\ parent' = parent /\ children' = children]_vars

----------------------------------------------------------------------------
(* The lookup of a text by language: a caller about to look up a value     *)
(* that is one text, None, or a table of up to two languages.              *)

GetFieldOrLangDictValue(e, field, lang) ==
    /\ op' = Answered("get_field_or_lang_dict_value", e, <<field, lang>>,
                      LET value == get_field_or_lang_dict_value(field, lang)
                      IN IF value.t = "raise"
                         THEN Throws(value.v[1], PyNone)
                         ELSE Gives(value, PyNone))
    /\ UNCHANGED <<created, parent, children, attrs, survey, qtd, any_repeat_cache>>

LookupLanguages == {S_en, S_fr, S_de}
LookupTexts == {PyStr(<<"E">>), PyStr(<<"F", "_">>), PyStr(EmptyStr)}

\* One text, None, and the tables of at most two languages.
LookupFields ==
    {PyStr(EmptyStr), PyStr(<<"N">>), PyStr(S_en), PyNone, PyDict(<<>>)}
    \cup {PyDict(<< <<l, t>> >>) : l \in LookupLanguages, t \in LookupTexts}
    \cup {PyDict(<< <<ls[1], t>>, <<ls[2], u>> >>) :
            ls \in {p \in LookupLanguages \X LookupLanguages : p[1] # p[2]},
            t \in LookupTexts, u \in LookupTexts}

InitLookup ==
    /\ created = {1}
    /\ parent = [e \in Elems |-> None]
    /\ children = [e \in Elems |-> <<>>]
    /\ attrs = [e \in Elems |-> DefaultAttrs]
    /\ survey = NoSurvey
    /\ qtd = <<>>
    /\ any_repeat_cache = {}
    /\ \E field \in LookupFields,
          lang \in {PyNone} \cup {PyStr(l) : l \in LookupLanguages} :
         op = [Pending("get_field_or_lang_dict_value", <<field, lang>>)
               EXCEPT !.self = 1]

\* The caller makes the call it set out to make.
NextLookup ==
    /\ op.error = "pending"
    /\ GetFieldOrLangDictValue(op.self, op.arg[1], op.arg[2])

SpecLookup == InitLookup /\ [][NextLookup]_vars

\* The last call is get_field_or_lang_dict_value.
LookupCall ==
    op.name = "get_field_or_lang_dict_value" /\ op.error # "pending"

\* The text a table holds for a language.
TextIn(table, language) ==
    table[CHOOSE i \in 1..Len(table) : table[i][1] = language][2]

\* C27: get_field_or_lang_dict_value returns, for a table of languages and
\* no target language, the text of the first language of the table; for a
\* target language the table has, the text of that language; for a target
\* language the table lacks, the empty string; and a value that is not a
\* table unchanged.
C27_FirstLanguageText ==
    LookupCall =>
        LET field == op.arg[1]
            lang == op.arg[2]
        IN /\ field.t # "dict" => op.error = "none" /\ op.result = field
           /\ (field.t = "dict" /\ lang.t = "none" /\ field.v # <<>>) =>
                 op.error = "none" /\ op.result = field.v[1][2]
           /\ (field.t = "dict" /\ lang.t = "str") =>
                 /\ op.error = "none"
                 /\ op.result =
                      IF \E i \in 1..Len(field.v) : field.v[i][1] = lang.v
                      THEN TextIn(field.v, lang.v)
                      ELSE PyStr(EmptyStr)

----------------------------------------------------------------------------
(* Bind messages in bindings and translations: a question under the root   *)
(* that binds one message, with or without a relevant entry ahead of it,   *)
(* and a caller that asks for its bindings and for its translations.       *)

\* What a message may be bound to: a text per language, no language at
\* all, a text with a reference, a plain text, the empty text.
BoundMessages == {Msg_multi, PyDict(<<>>), Msg_ref, Msg_plain, PyStr(EmptyStr)}

InitMessages ==
    /\ created = {1, 2}
    /\ parent = [e \in Elems |-> IF e = 2 THEN 1 ELSE None]
    /\ children = [e \in Elems |-> IF e = 1 THEN <<2>> ELSE <<>>]
    /\ \E field \in MessageFields, msg \in BoundMessages,
          ahead \in {<<>>, Bind_relevant}, flat \in BOOLEAN :
         attrs = [e \in Elems |->
                    IF e = 1 THEN [DefaultAttrs EXCEPT !.name = NameOf(1),
                                                       !.type = S_survey]
                    ELSE IF e = 2
                    THEN [DefaultAttrs EXCEPT
                            !.name = <<"q">>, !.type = S_string,
                            !.label = Label_plain, !.flat = flat,
                            !.bind = ahead \o << <<<<field>>, msg>> >>]
                    ELSE DefaultAttrs]
    /\ \/ survey = NoSurvey
       \/ survey = [annotated |-> TRUE, annotated_fields |-> <<"relevant">>]
    /\ qtd = <<>>
    /\ any_repeat_cache = {}
    /\ op = NoOp

NextMessages ==
    \/ \E e \in created : XmlBindings(e)
    \/ \E e \in created : GetTranslations(e, S_default)

SpecMessages == InitMessages /\ [][NextMessages]_vars

\* The records get_translations yields for a message field of the element
\* of the last call.
TranslatedMessages(field) ==
    SelectSeq(get_translations(op.self, S_default).result,
              LAMBDA r : IsMessage(r)
                         /\ r.path = _translation_path(op.self, field))

\* The bind fragment returned has the itext reference of the field as the
\* value of its attribute.
RefersToItext(field) ==
    /\ DictHas(BindFragment, <<field>>)
    /\ DictGet(BindFragment, <<field>>, PyNone)
          = Substituted(PyStr(<<"jr:itext('">> \o get_xpath(op.self)
                              \o <<":", field, "')">>))

\* C30: for jr:constraintMsg, jr:requiredMsg and jr:noAppErrorString the
\* bindings and the translations of one element agree: whenever
\* xml_bindings emits the reference jr:itext('<xpath>:<attribute>'),
\* get_translations yields at least one record with the path
\* "<xpath>:<attribute>"; and whenever xml_bindings emits a bind fragment
\* and get_translations yields a record with that path, the attribute of
\* the fragment is that reference.
C30_MessagesAgree ==
    BindEmitted =>
        \A field \in MessageFields :
            /\ RefersToItext(field) => Len(TranslatedMessages(field)) >= 1
            /\ Len(TranslatedMessages(field)) >= 1 => RefersToItext(field)

====
